---- MODULE Spec2Model ----
(***************************************************************************)
(* Model of the MQuAKE triplet expansion pipeline                          *)
(* (src/triplet_creations/mquake_triplet_process.py): the checkpointed,    *)
(* batched, concurrent crawl of expand_triplets_logistics /                *)
(* expand_triplet_set / _batch_entity_set_expansion /                      *)
(* save_entity_expansion_checkpoint, run by one operating-system process   *)
(* at a time that may be killed and started again over the same disk.      *)
(***************************************************************************)
EXTENDS Integers, Sequences, FiniteSets, TLC

\* ---------------------------------------------------------------- bounds
MaxHops == 2          \* --expansion_hops ranges over 1..MaxHops
MaxBatchSize == 2     \* --entity_batch_size ranges over 1..MaxBatchSize
MaxWorkers == 2       \* --max_workers ranges over 1..MaxWorkers
MaxRestarts == 2      \* how often the process is killed or aborts and is started again
MaxRetries == 2       \* --max_retries ranges over 1..MaxRetries
MaxTriplets == 10     \* length of the triplet list handed to create_dataset_splits
MaxSplitCalls == 2    \* calls of create_dataset_splits in one process
MaxRows == 3          \* triplet rows of the file read by pruning_expanded_triplets
MaxThreshold == 2     \* --ent_rel_pruning_threshold ranges over 0..MaxThreshold
MaxFound == 2         \* triplets in one fetch result handed to set.update
MaxFreq == 2          \* occurrences of one raw triplet handed to the post-processor
MaxRecords == 2       \* records of the MQuAKE dataset file
MaxTimeout == 2       \* --timeout ranges over 1..MaxTimeout
MaxQuestions == 2     \* rows of the Jeopardy question file

\* ------------------------------------------------------ program constants
ETWoQ_COLUMNS == <<"head", "rel", "tail">>
QUALIFER_DICT_COLUMNS == <<"triplet", "qualifier">>
ETWQ_COLUMNS == <<"head", "rel", "tail", "qualifiers">>
EXIT_UNRECOVERABLE == 255   \* exit(-1) as seen by the parent process
EXIT_RUNTIME_ERROR == 1     \* uncaught RuntimeError
EXIT_OK == 0
DEFAULT_TARGET_ENTITY_COUNT == 15000    \* --target_entity_count
min_examples_per_split == 3
EXIT_UNCAUGHT_EXCEPTION == 1            \* a traceback ends the interpreter

\* ------------------------------------------------- the knowledge base
Entities == {"Q1", "Q2", "Q3", "Q4"}
Relations == {"P1", "P2"}
SeedCandidates == {"Q1", "Q2"}

\* Triplets the remote knowledge base may hold; a run's knowledge base is a
\* subset of these, fixed for the run (deterministic fetcher).
TripletUniverse ==
    { <<"Q1", "P1", "Q3">>, <<"Q2", "P2", "Q3">>,
      <<"Q3", "P1", "Q4">>, <<"Q3", "P2", "Q1">> }

\* The knowledge bases a run is checked over: those in which the seed Q1 has
\* a neighbour (the seed Q2 has one or none).
KnowledgeBases == { g \in SUBSET TripletUniverse : <<"Q1", "P1", "Q3">> \in g }

\* Qualifier payload of the qualifier-bearing triplets: a list of
\* (qualifier relation, value) pairs.
QualifierPayload ==
    [t \in { <<"Q1", "P1", "Q3">>, <<"Q3", "P1", "Q4">> } |->
        IF t[1] = "Q1" THEN << <<"P580", "Q2">> >> ELSE << <<"P582", "Q1">> >>]

\* ------------------------------------------------------ python helpers
EmptyDict == [k \in {} |-> <<>>]

\* str(value) of a tuple or list of strings, and the empty string; the text is
\* kept as the value it spells, wrapped, so that text and value differ
StrOf(value) == <<value>>
EmptyString == <<>>

\* ast.literal_eval(text) of such a text
LiteralEval(text) == text[1]

\* what may be typed at the prompt of line 562, and no answer at all
Answers == {"y", "Y", "n"}
NothingTyped == ""

\* str.lower() on such an answer
Lower(text) == IF text = "Y" THEN "y" ELSE IF text = "N" THEN "n" ELSE text

\* dict.update(b) applied to a
DictUpdate(a, b) ==
    [k \in (DOMAIN a) \cup (DOMAIN b) |-> IF k \in DOMAIN b THEN b[k] ELSE a[k]]

Range(s) == { s[i] : i \in DOMAIN s }

\* list(a_set): some enumeration of the set without repetition
ListsOf(S) ==
    { s \in [1..Cardinality(S) -> S] : \A i, j \in 1..Cardinality(S) : s[i] = s[j] => i = j }

Min(a, b) == IF a < b THEN a ELSE b

\* Python slice lst[lo:hi] with 0-based lo, exclusive hi
Slice(lst, lo, hi) == [i \in 1..(hi - lo) |-> lst[lo + i]]

\* [x for x in lst if x not in excluded], order kept
RECURSIVE FilterNotIn(_, _)
FilterNotIn(lst, excluded) ==
    IF lst = <<>> THEN <<>>
    ELSE IF Head(lst) \in excluded THEN FilterNotIn(Tail(lst), excluded)
         ELSE <<Head(lst)>> \o FilterNotIn(Tail(lst), excluded)

\* ----------------------------------------------- remote neighbor fetcher
\* fetch_entity_triplet(entity, "separate"): all triplets in which the entity
\* is head or tail, and the qualifier mapping of those that bear qualifiers.
FetchTriplets(graph, entity) ==
    { t \in graph : t[1] = entity \/ t[3] = entity }

FetchQualifiers(graph, entity) ==
    [t \in FetchTriplets(graph, entity) \cap DOMAIN QualifierPayload |-> QualifierPayload[t]]

\* the forward-reference mapping of a fetch: the key of each neighbor
\* reference met in the entity's triplets, mapped to the identifier it
\* resolves to
ForwardKey(identifier) == <<"ref", identifier>>
FetchForward(graph, entity) ==
    [k \in { ForwardKey(n) : n \in { t[1] : t \in FetchTriplets(graph, entity) }
                                     \cup { t[3] : t \in FetchTriplets(graph, entity) } }
        |-> k[2]]

\* ------------------------------------------------------ files on disk
NoFile == [exists |-> FALSE, header |-> <<>>, rows |-> {}]

\* f.write("\n".join(entities)) : one line per entity, no header
WriteEntityLines(entities) ==
    [exists |-> TRUE, header |-> <<>>, rows |-> entities]

\* set(f.read().splitlines())
ReadEntityLines(file) == file.rows

\* pd.DataFrame(triplets, columns=ETWoQ_COLUMNS).to_csv(path, index=False);
\* the cells are identifiers ("Q..", "P.."), which pandas reads back as the
\* same strings
WriteTripletCsv(triplets) ==
    [exists |-> TRUE, header |-> ETWoQ_COLUMNS, rows |-> triplets]

\* pd.read_csv(path, header=0) then [(row[0], row[1], row[2]) for row in values]
ReadTripletCsv(file) == { <<r[1], r[2], r[3]>> : r \in file.rows }

\* DataFrame({"triplet": keys, "qualifier": values}).to_csv(path, index=False)
WriteQualifierCsv(dict) ==
    [exists |-> TRUE, header |-> QUALIFER_DICT_COLUMNS,
     rows |-> { <<StrOf(k), StrOf(dict[k])>> : k \in DOMAIN dict }]

\* {ast.literal_eval(row[0]): ast.literal_eval(row[1]) for row in rows}
ReadQualifierCsv(file) ==
    [k \in { LiteralEval(r[1]) : r \in file.rows } |->
        LiteralEval((CHOOSE r \in file.rows : LiteralEval(r[1]) = k)[2])]

NoCheckpoint == [entities |-> NoFile, triplets |-> NoFile, qualifiers |-> NoFile]

CheckpointFiles == {"entities", "triplets", "qualifiers"}

\* all([os.path.exists(p) for p in paths]) / any([...])
AllCheckpointFilesExist(disk) == \A f \in CheckpointFiles : disk[f].exists
SomeCheckpointFilesExist(disk) == \E f \in CheckpointFiles : disk[f].exists


\* ================================================================ state
VARIABLES
    \* command line and input files (fixed during a behaviour)
    kg,                    \* content of the remote knowledge base
    og_entities,           \* lines of the seed entity file (path_og_entities)
    expansion_hops, entity_batch_size, max_workers,
    target_size,           \* --target_entity_count
    \* durable storage
    ckpt,                  \* the three checkpoint files
    out,                   \* the final expanded triplet / entity / relation files
    \* the pipeline process
    pc, exit_status, restarts,
    \* locals of expand_triplets_logistics
    will_use_checkpoint, entities_to_expand_upon,
    chkpntd_triplets_processed, chkpntd_qualifier_dictionary,
    \* locals of expand_triplet_set
    expanded_triplets, qualifier_dictionary, entities_to_process_per_hop,
    processed_entities, hop, new_neighbors, batch_start, batch,
    entities_yet_to_process,
    \* locals of _batch_entity_set_expansion
    futures, newfound_triplets, batch_qualifier_dictionary, batch_forward_dict,
    \* history variables (read by no action guard or assignment of the program)
    unfinished_save,       \* a save call was begun and not completed since the
                           \* last completed one
    saves_done,            \* save calls completed by the current process
    batches_begun,         \* batches with fetches begun by the current process
    hop_batches,           \* batches with fetches begun in the current hop
    fetch_count,           \* fetches submitted per entity by the current process
    fetch_failed,          \* entities whose fetch failed in the current process
    prompted,              \* the current process asked the resume question
    typed_answer,          \* what was typed at the resume question
    disk_at_start,         \* checkpoint files when the current process started
    last_saved,            \* checkpoint files after the last completed save
    ckpt_processed,        \* entities processed as of the last completed save
    inherited_processed,   \* ckpt_processed of the checkpoint resumed from
    resumed,               \* the current process continued from the checkpoint
    resumed_from_snapshot, \* ... and the three files it read were one snapshot
    snapshots,             \* the snapshot of the last completed save call and of
                           \* every save call begun since
    \* one task of a batch: retry_fetch(fetch_entity_triplet, entity, ...,
    \* max_retries=max_retries) and what the orchestrator does with its outcome
    retry_pc, retry_entity, max_retries, retry_attempts,
    retry_failures,        \* history: attempts that failed
    retry_newfound,        \* newfound_triplets of the batch
    retry_exit_status,
    \* create_dataset_splits
    triplet_list,          \* the argument triplets
    train_ratio, test_valid_ratio, seed,
    rng,                   \* state of the generator of the random module
    split_pc, train_indices, test_indices, valid_indices,
    split_files,           \* the train, test and valid files
    split_exit_status,
    split_calls,           \* history: calls made so far
    first_split,
    \* pruning_expanded_triplets mode (main, lines 727-761)
    tab_file,                \* rows of the qualifier-free triplet file, header first
    non_prunable_entities,   \* lines of the og_entity_output file
    non_prunable_relations,  \* lines of the og_relation_output file
    pruning_num,             \* --ent_rel_pruning_threshold
    prune_pc,
    expanded_triplets_df,    \* rows of the data frame read from tab_file
    ent_to_prune,
    rel_to_prune,
    pruned_file,             \* rows of pruned_triplets_output, header first
    \* the triplet sets of a run as hash sets: the entries they hold, in the
    \* order they were inserted
    dedup_pc,
    dedup_pending,           \* fetch results not yet merged, batch by batch
    dedup_chkpntd,           \* chkpntd_triplets_processed
    dedup_newfound,          \* newfound_triplets of the batch under way
    dedup_expanded,          \* expanded_triplets
    dedup_rows,              \* expanded_triplets_w_qualifiers
    dedup_offered,           \* history: every triplet handed to an update so far
    \* the inverse-relation step of the triplet post-processor
    inv_pc,
    inv_freq,                \* raw triplet -> number of occurrences (0: absent)
    inv_candidates,          \* candidate pairs the greedy pass has not visited yet
    inv_committed,           \* committed pairs <<primary, inverse>>
    inv_pending,             \* triplets not yet emitted or dropped
    inv_emitted,             \* the processed triplet output
    \* extract_entities mode (utils/mquake.py and main, lines 676-694)
    extract_pc,
    mquake_data,             \* the records of the dataset file
    examples_done,           \* records the loop has gone through
    seed_entities,           \* entities
    seed_relations,          \* relations
    rr_entities,
    rr_relations,
    extract_error,           \* the exception that ended the process, or "none"
    list_files,              \* the four entity/relation list files
    \* create_dataset mode (main, lines 764-794); it reads tab_file and calls
    \* create_dataset_splits
    tab_file_exists,         \* os.path.exists of the qualifier-free triplet file
    error_logged,            \* what logger.error reported, or "none"
    \* the retry and timeout knobs on their way from main to a fetch task
    args_max_retries,        \* --max_retries
    args_timeout,            \* --timeout
    call_pc,                 \* the function the call chain has reached
    call_max_retries,        \* max_retries parameter of that function
    call_timeout,            \* timeout parameter of that function
    \* jeopardyqa_2_valids.py: the Jeopardy question filter
    jeopardy_df,             \* rows of the Jeopardy question file
    jeopardy_triplets,       \* the triplets of the graph
    node_data,               \* the entities the node data file has a Title for
    rows_seen,               \* rows the loop of line 66 has gone through
    filtered_rows,           \* the list of kept rows (line 64)
    jeopardy_output,         \* the file written at line 91
    jeopardy_error           \* the exception that ended the script, or "none"
            \* history: index sets the first call ended with

inputVars == <<kg, og_entities, expansion_hops, entity_batch_size, max_workers,
               target_size>>
diskVars == <<ckpt, out>>
logisticsVars == <<will_use_checkpoint, entities_to_expand_upon,
                   chkpntd_triplets_processed, chkpntd_qualifier_dictionary>>
expandVars == <<expanded_triplets, qualifier_dictionary, entities_to_process_per_hop,
                processed_entities, hop, new_neighbors, batch_start, batch,
                entities_yet_to_process>>
batchVars == <<futures, newfound_triplets, batch_qualifier_dictionary, batch_forward_dict>>
saveHist == <<unfinished_save, saves_done, last_saved, ckpt_processed, snapshots>>
procHist == <<batches_begun, hop_batches, fetch_count, fetch_failed, prompted, typed_answer,
              disk_at_start, inherited_processed, resumed, resumed_from_snapshot>>
retryVars == <<retry_pc, retry_entity, max_retries, retry_attempts, retry_failures,
               retry_newfound, retry_exit_status>>
splitInputs == <<triplet_list, train_ratio, test_valid_ratio, seed>>
splitVars == <<splitInputs, rng, split_pc, train_indices, test_indices, valid_indices,
               split_files, split_exit_status, split_calls, first_split>>
pruneInputs == <<tab_file, non_prunable_entities, non_prunable_relations, pruning_num>>
pruneVars == <<pruneInputs, prune_pc, expanded_triplets_df, ent_to_prune, rel_to_prune,
               pruned_file>>
dedupVars == <<dedup_pc, dedup_pending, dedup_chkpntd, dedup_newfound, dedup_expanded,
               dedup_rows, dedup_offered>>
inverseVars == <<inv_pc, inv_freq, inv_candidates, inv_committed, inv_pending, inv_emitted>>
extractVars == <<extract_pc, mquake_data, examples_done, seed_entities, seed_relations,
                 rr_entities, rr_relations, extract_error, list_files>>
createVars == <<tab_file_exists, error_logged>>
knobVars == <<args_max_retries, args_timeout, call_pc, call_max_retries, call_timeout>>
jeopardyVars == <<jeopardy_df, jeopardy_triplets, node_data, rows_seen, filtered_rows,
                  jeopardy_output, jeopardy_error>>
stageVars == <<retryVars, splitVars, pruneVars, dedupVars, inverseVars, extractVars, createVars, knobVars, jeopardyVars>>
vars == <<inputVars, diskVars, pc, exit_status, restarts, logisticsVars,
          expandVars, batchVars, saveHist, procHist, stageVars>>

NoFutures == [e \in Entities |-> "none"]
NoFetches == [e \in Entities |-> 0]

\* values of the locals of a process that has not assigned them (yet, or any more)
LocalsCleared ==
    /\ will_use_checkpoint = FALSE
    /\ entities_to_expand_upon = {}
    /\ chkpntd_triplets_processed = {}
    /\ chkpntd_qualifier_dictionary = EmptyDict
    /\ expanded_triplets = {}
    /\ qualifier_dictionary = EmptyDict
    /\ entities_to_process_per_hop = <<>>
    /\ processed_entities = {}
    /\ hop = 0
    /\ new_neighbors = {}
    /\ batch_start = 0
    /\ batch = <<>>
    /\ entities_yet_to_process = {}
    /\ futures = NoFutures
    /\ newfound_triplets = {}
    /\ batch_qualifier_dictionary = EmptyDict
    /\ batch_forward_dict = EmptyDict

\* the task of one entity is not looked into
RetryIdle ==
    /\ retry_pc = "idle"
    /\ retry_entity = "Q1"
    /\ max_retries = 1
    /\ retry_attempts = 0
    /\ retry_failures = 0
    /\ retry_newfound = {}
    /\ retry_exit_status = EXIT_OK

NoSplitFiles == [train |-> <<>>, test |-> <<>>, valid |-> <<>>]
NoSplit == [train |-> {}, test |-> {}, valid |-> {}]

\* create_dataset_splits is not called
SplitIdle ==
    /\ triplet_list = <<>>
    /\ train_ratio = 80
    /\ test_valid_ratio = 50
    /\ seed = 42
    /\ rng = 0
    /\ split_pc = "idle"
    /\ train_indices = {}
    /\ test_indices = {}
    /\ valid_indices = {}
    /\ split_files = NoSplitFiles
    /\ split_exit_status = EXIT_OK
    /\ split_calls = 0
    /\ first_split = NoSplit

\* the other stages and closer looks are not run
\* to_csv(index=False): the column names are the first line of the file
HeaderRow == <<"head", "relation", "tail">>

PruneIdle ==
    /\ tab_file = <<HeaderRow>>
    /\ non_prunable_entities = {}
    /\ non_prunable_relations = {}
    /\ pruning_num = 0
    /\ prune_pc = "idle"
    /\ expanded_triplets_df = <<>>
    /\ ent_to_prune = {}
    /\ rel_to_prune = {}
    /\ pruned_file = <<>>

DedupIdle ==
    /\ dedup_pc = "idle"
    /\ dedup_pending = <<>>
    /\ dedup_chkpntd = <<>>
    /\ dedup_newfound = <<>>
    /\ dedup_expanded = <<>>
    /\ dedup_rows = <<>>
    /\ dedup_offered = <<>>

InverseIdle ==
    /\ inv_pc = "idle"
    /\ inv_freq = <<>>
    /\ inv_candidates = {}
    /\ inv_committed = {}
    /\ inv_pending = {}
    /\ inv_emitted = {}

\* main, lines 681-686: paths_to_save
ListFileNames == <<"og_entity_output", "og_relation_output", "cf_entity_output",
                   "cf_relation_output">>
NoListFiles == [f \in Range(ListFileNames) |-> NoFile]

ExtractIdle ==
    /\ extract_pc = "idle"
    /\ mquake_data = <<>>
    /\ examples_done = 0
    /\ seed_entities = {}
    /\ seed_relations = {}
    /\ rr_entities = {}
    /\ rr_relations = {}
    /\ extract_error = "none"
    /\ list_files = NoListFiles

CreateIdle ==
    /\ tab_file_exists = TRUE
    /\ error_logged = "none"

KnobsIdle ==
    /\ args_max_retries = 1
    /\ args_timeout = 1
    /\ call_pc = "idle"
    /\ call_max_retries = 1
    /\ call_timeout = 1

NoJeopardyFile == [exists |-> FALSE, rows |-> <<>>]

JeopardyIdle ==
    /\ jeopardy_df = <<>>
    /\ jeopardy_triplets = {}
    /\ node_data = {}
    /\ rows_seen = 0
    /\ filtered_rows = <<>>
    /\ jeopardy_output = NoJeopardyFile
    /\ jeopardy_error = "none"

StagesIdle == RetryIdle /\ SplitIdle /\ PruneIdle /\ DedupIdle /\ InverseIdle /\ ExtractIdle /\ CreateIdle /\ KnobsIdle /\ JeopardyIdle

\* no process has run yet: empty disk, no locals, no history
ProcessNotStarted ==
    /\ ckpt = NoCheckpoint
    /\ out = [exists |-> FALSE, triplets |-> {}, entities |-> {}, relations |-> {}]
    /\ exit_status = EXIT_OK
    /\ restarts = 0
    /\ LocalsCleared
    /\ unfinished_save = FALSE
    /\ saves_done = 0
    /\ batches_begun = 0
    /\ hop_batches = 0
    /\ fetch_count = NoFetches
    /\ fetch_failed = {}
    /\ prompted = FALSE
    /\ typed_answer = NothingTyped
    /\ disk_at_start = NoCheckpoint
    /\ last_saved = NoCheckpoint
    /\ ckpt_processed = {}
    /\ inherited_processed = {}
    /\ resumed = FALSE
    /\ resumed_from_snapshot = FALSE
    /\ snapshots = {}

\* the expand_entities stage about to start, whatever the target entity count
ExpandStageInit ==
    /\ kg \in KnowledgeBases
    /\ og_entities \in (SUBSET SeedCandidates) \ {{}}
    /\ expansion_hops \in 1..MaxHops
    /\ entity_batch_size \in 1..MaxBatchSize
    /\ max_workers \in 1..MaxWorkers
    /\ pc = "logistics"
    /\ ProcessNotStarted
    /\ StagesIdle

\* the expand_entities stage is not run
ExpandStageIdle ==
    /\ og_entities = {}
    /\ expansion_hops = 1
    /\ entity_batch_size = 1
    /\ max_workers = 1
    /\ target_size = DEFAULT_TARGET_ENTITY_COUNT
    /\ pc = "idle"
    /\ ProcessNotStarted

Init ==
    /\ ExpandStageInit
    /\ target_size = DEFAULT_TARGET_ENTITY_COUNT

\* ============================================== expand_triplets_logistics
\* what the three checkpoint files yield when read back (lines 569-578)
LoadedFrontier(disk) == ReadEntityLines(disk.entities)
LoadedTriplets(disk) == ReadTripletCsv(disk.triplets)
LoadedQualifiers(disk) == ReadQualifierCsv(disk.qualifiers)

\* a resume whatever is typed
WillUseCheckpointAlways(answer) == TRUE

\* line 562: input(...).lower() == "y"
WillUseCheckpoint(answer) == Lower(answer) = "y"

\* a check that asks any([...]) where the code asks all([...])
CheckpointDecisionAny(disk) ==
    IF SomeCheckpointFilesExist(disk) THEN "prompt" ELSE "fresh"

\* lines 561-566: "prompt", "raise" or "fresh"
CheckpointDecision(disk) ==
    IF AllCheckpointFilesExist(disk) THEN "prompt"
    ELSE IF SomeCheckpointFilesExist(disk) THEN "raise"
    ELSE "fresh"

\* lines 580-586: start from the seed entity file with nothing accumulated
StartFromTheBeginning ==
    /\ entities_to_expand_upon' = og_entities
    /\ chkpntd_triplets_processed' = {}
    /\ chkpntd_qualifier_dictionary' = EmptyDict
    /\ inherited_processed' = {}
    /\ resumed' = FALSE
    /\ resumed_from_snapshot' = FALSE

\* lines 568-579: take the checkpoint files as the starting state
ContinueFromCheckpoint ==
    /\ entities_to_expand_upon' = LoadedFrontier(ckpt)
    /\ chkpntd_triplets_processed' = LoadedTriplets(ckpt)
    /\ chkpntd_qualifier_dictionary' = LoadedQualifiers(ckpt)
    /\ inherited_processed' = ckpt_processed
    /\ resumed' = TRUE
    /\ resumed_from_snapshot' = ~unfinished_save

\* lines 547-587; the answer typed at the prompt is an input
LogisticsBegin ==
    /\ pc = "logistics"
    /\ LET decision == CheckpointDecision(ckpt) IN
        CASE decision = "prompt" ->
               \E answer \in Answers :
                   /\ prompted' = TRUE
                   /\ typed_answer' = answer
                   /\ will_use_checkpoint' = WillUseCheckpoint(answer)
                   /\ IF WillUseCheckpoint(answer) THEN ContinueFromCheckpoint
                                                   ELSE StartFromTheBeginning
                   /\ pc' = "expand_begin"
                   /\ UNCHANGED exit_status
          [] decision = "raise" ->
               /\ pc' = "config_error"
               /\ exit_status' = EXIT_RUNTIME_ERROR
               /\ UNCHANGED <<prompted, typed_answer, logisticsVars, inherited_processed, resumed,
                              resumed_from_snapshot>>
          [] OTHER ->
               /\ will_use_checkpoint' = FALSE
               /\ StartFromTheBeginning
               /\ pc' = "expand_begin"
               /\ UNCHANGED <<prompted, typed_answer, exit_status>>
    /\ UNCHANGED <<stageVars, inputVars, diskVars, restarts, expandVars, batchVars, saveHist,
                   batches_begun, hop_batches, fetch_count, fetch_failed, disk_at_start>>

\* ===================================================== expand_triplet_set
\* lines 290-299
ExpandBegin ==
    /\ pc = "expand_begin"
    /\ expanded_triplets' = {}
    /\ qualifier_dictionary' = EmptyDict
    /\ \E lst \in ListsOf(entities_to_expand_upon) : entities_to_process_per_hop' = lst
    /\ processed_entities' = {}
    /\ hop' = 0
    /\ pc' = "hop_head"
    /\ UNCHANGED <<stageVars, inputVars, diskVars, exit_status, restarts, logisticsVars,
                   new_neighbors, batch_start, batch, entities_yet_to_process,
                   batchVars, saveHist, procHist>>

\* a hop loop that also ends once the target entity count is reached
HopsRemainUntilTarget(h, hops) ==
    h < hops /\ Cardinality(processed_entities) < target_size

\* line 302: for hop in range(expansion_hops)
HopsRemain(h, hops) == h < hops

\* lines 302-311
HopHead ==
    /\ pc = "hop_head"
    /\ IF HopsRemain(hop, expansion_hops)
       THEN /\ new_neighbors' = {}
            /\ batch_start' = 0
            /\ hop_batches' = 0
            /\ pc' = "batch_head"
       ELSE /\ pc' = "final_save"
            /\ UNCHANGED <<new_neighbors, batch_start, hop_batches>>
    /\ UNCHANGED <<stageVars, inputVars, diskVars, exit_status, restarts, logisticsVars,
                   expanded_triplets, qualifier_dictionary, entities_to_process_per_hop,
                   processed_entities, hop, batch, entities_yet_to_process,
                   batchVars, saveHist, batches_begun, fetch_count, fetch_failed,
                   prompted, typed_answer, disk_at_start, inherited_processed, resumed,
                   resumed_from_snapshot>>

\* lines 314-316: the slice of the hop's list, less the processed entities
BatchOf(lst, start, size, processed) ==
    FilterNotIn(Slice(lst, start, Min(start + size, Len(lst))), processed)

\* lines 194-205: the dict comprehension calls executor.submit once for each
\* element of the batch; the number of tasks submitted for an entity
SubmittedTasks(b, e) == Cardinality({ i \in DOMAIN b : b[i] = e })

\* a batch loop that does not advance
NextBatchStartStuck(start, size) == start

\* line 312: the next value of range(0, len(list), batch_size)
NextBatchStart(start, size) == start + size

\* lines 312-320 and the submission of one task per entity, lines 190-205
BatchHead ==
    /\ pc = "batch_head"
    /\ IF batch_start < Len(entities_to_process_per_hop)
       THEN LET b == BatchOf(entities_to_process_per_hop, batch_start,
                             entity_batch_size, processed_entities) IN
            IF Len(b) = 0
            THEN /\ batch_start' = NextBatchStart(batch_start, entity_batch_size)
                 /\ UNCHANGED <<pc, batch, batchVars, batches_begun, hop_batches, fetch_count>>
            ELSE /\ batch' = b
                 /\ futures' = [e \in Entities |-> IF e \in Range(b) THEN "queued" ELSE "none"]
                 /\ newfound_triplets' = {}
                 /\ batch_qualifier_dictionary' = EmptyDict
                 /\ batch_forward_dict' = EmptyDict
                 /\ batches_begun' = batches_begun + 1
                 /\ hop_batches' = hop_batches + 1
                 /\ fetch_count' = [e \in Entities |->
                                      fetch_count[e] + SubmittedTasks(b, e)]
                 /\ pc' = "as_completed"
                 /\ UNCHANGED batch_start
       ELSE /\ pc' = "hop_tail"
            /\ UNCHANGED <<batch_start, batch, batchVars, batches_begun, hop_batches, fetch_count>>
    /\ UNCHANGED <<stageVars, inputVars, diskVars, exit_status, restarts, logisticsVars,
                   expanded_triplets, qualifier_dictionary, entities_to_process_per_hop,
                   processed_entities, hop, new_neighbors, entities_yet_to_process,
                   saveHist, fetch_failed, prompted, typed_answer, disk_at_start,
                   inherited_processed,
                   resumed, resumed_from_snapshot>>

\* ============================================ _batch_entity_set_expansion
Running == { e \in Entities : futures[e] = "running" }
Queued == { e \in Entities : futures[e] = "queued" }
Unresolved == Running \cup Queued

\* the executor's work queue is first-in first-out in submission (batch) order
FirstQueued(b, fut) ==
    b[CHOOSE i \in DOMAIN b :
        /\ fut[b[i]] = "queued"
        /\ \A j \in DOMAIN b : fut[b[j]] = "queued" => i <= j]

\* an executor that starts every task as soon as it is submitted
WorkerAlwaysFree(running, workers) == TRUE

\* line 190: ThreadPoolExecutor(max_workers=max_workers) has max_workers threads
WorkerFree(running, workers) == Cardinality(running) < workers

\* line 190: ThreadPoolExecutor(max_workers): a free worker takes the next task
WorkerStart ==
    /\ pc \in {"as_completed", "exiting"}
    /\ Queued # {}
    /\ WorkerFree(Running, max_workers)
    /\ futures' = [futures EXCEPT ![FirstQueued(batch, futures)] = "running"]
    /\ UNCHANGED <<stageVars, inputVars, diskVars, pc, exit_status, restarts, logisticsVars,
                   expandVars, newfound_triplets, batch_qualifier_dictionary,
                   batch_forward_dict,
                   saveHist, procHist>>

\* lines 195-203: retry_fetch(fetch_entity_triplet, entity, ...) returns its result
FetchReturns(e) ==
    /\ pc \in {"as_completed", "exiting"}
    /\ futures[e] = "running"
    /\ futures' = [futures EXCEPT ![e] = "ok"]
    /\ UNCHANGED <<stageVars, inputVars, diskVars, pc, exit_status, restarts, logisticsVars,
                   expandVars, newfound_triplets, batch_qualifier_dictionary,
                   batch_forward_dict,
                   saveHist, procHist>>

\* lines 195-203: retry_fetch gives up; the future holds no usable result
FetchFails(e) ==
    /\ pc \in {"as_completed", "exiting"}
    /\ futures[e] = "running"
    /\ futures' = [futures EXCEPT ![e] = "failed"]
    /\ fetch_failed' = fetch_failed \cup {e}
    /\ UNCHANGED <<stageVars, inputVars, diskVars, pc, exit_status, restarts, logisticsVars,
                   expandVars, newfound_triplets, batch_qualifier_dictionary,
                   batch_forward_dict,
                   saveHist, batches_begun, hop_batches, fetch_count, prompted, typed_answer,
                   disk_at_start, inherited_processed, resumed,
                   resumed_from_snapshot>>

\* a batch that keeps the triplets of the result taken last
BatchOverwrite(acc, found) == found

\* line 214: newfound_triplets.update(_newfound_triplets)
BatchUpdate(acc, found) == acc \cup found

\* lines 209-216: as_completed yields a finished future whose result unpacks
ResultOk(e) ==
    /\ pc = "as_completed"
    /\ futures[e] = "ok"
    /\ newfound_triplets' = BatchUpdate(newfound_triplets, FetchTriplets(kg, e))
    /\ batch_qualifier_dictionary' =
           DictUpdate(batch_qualifier_dictionary, FetchQualifiers(kg, e))
    /\ batch_forward_dict' = DictUpdate(batch_forward_dict, FetchForward(kg, e))
    /\ futures' = [futures EXCEPT ![e] = "consumed"]
    /\ UNCHANGED <<stageVars, inputVars, diskVars, pc, exit_status, restarts, logisticsVars,
                   expandVars, saveHist, procHist>>

\* an except branch that logs the error and goes on with the next future
OnFetchErrorSkip == "as_completed"

\* lines 218-221: what the except branch does with the run
OnFetchError == "exiting"

\* lines 209-212, 218-221: as_completed yields a future whose result raises;
\* exit(-1) unwinds through the executor's with block, which waits for the
\* tasks still queued or running
ResultFailed(e) ==
    /\ pc = "as_completed"
    /\ futures[e] = "failed"
    /\ pc' = OnFetchError
    /\ futures' = [futures EXCEPT ![e] = "consumed"]
    /\ UNCHANGED <<stageVars, inputVars, diskVars, exit_status, restarts, logisticsVars,
                   expandVars, newfound_triplets, batch_qualifier_dictionary,
                   batch_forward_dict,
                   saveHist, procHist>>

\* the locals of a process that ended
ClearLocals ==
    /\ will_use_checkpoint' = FALSE
    /\ entities_to_expand_upon' = {}
    /\ chkpntd_triplets_processed' = {}
    /\ chkpntd_qualifier_dictionary' = EmptyDict
    /\ expanded_triplets' = {}
    /\ qualifier_dictionary' = EmptyDict
    /\ entities_to_process_per_hop' = <<>>
    /\ processed_entities' = {}
    /\ hop' = 0
    /\ new_neighbors' = {}
    /\ batch_start' = 0
    /\ batch' = <<>>
    /\ entities_yet_to_process' = {}
    /\ futures' = NoFutures
    /\ newfound_triplets' = {}
    /\ batch_qualifier_dictionary' = EmptyDict
    /\ batch_forward_dict' = EmptyDict

\* an abort that first saves what the failed batch had gathered
ProcessExitSavingBatch ==
    /\ pc = "exiting"
    /\ Unresolved = {}
    /\ pc' = "aborted"
    /\ exit_status' = EXIT_UNRECOVERABLE
    /\ ckpt' = [entities |-> WriteEntityLines(
                     (Range(entities_to_process_per_hop) \cup new_neighbors
                          \cup { t[3] : t \in newfound_triplets })
                     \ (processed_entities \cup Range(batch))),
                triplets |-> WriteTripletCsv(expanded_triplets \cup newfound_triplets),
                qualifiers |-> WriteQualifierCsv(
                     DictUpdate(qualifier_dictionary, batch_qualifier_dictionary))]
    /\ ClearLocals
    /\ UNCHANGED <<stageVars, inputVars, out, restarts, saveHist, procHist>>

\* line 221 after the executor shut down: the process ends with status -1
ProcessExit ==
    /\ pc = "exiting"
    /\ Unresolved = {}
    /\ pc' = "aborted"
    /\ exit_status' = EXIT_UNRECOVERABLE
    /\ ClearLocals
    /\ UNCHANGED <<stageVars, inputVars, diskVars, restarts, saveHist, procHist>>

\* a batch call that returns without waiting for its futures
ResultsNotAwaited(b, fut) == TRUE

\* a wait that returns with the first result of the batch
FirstResultSeen(b, fut) == \E e \in Range(b) : fut[e] = "consumed"

\* line 209: as_completed is exhausted once every future of the batch was yielded
AllResultsSeen(b, fut) == \A e \in Range(b) : fut[e] = "consumed"

\* line 342: [tails for _, _, tails in _expanded_triplets]
TailsOf(triplets) == { t[3] : t \in triplets }

\* a processed set that takes only the entities a triplet was found for
MarkProcessedIfFound(processed, b, found) ==
    processed \cup { e \in Range(b) : \E t \in found : t[1] = e }

\* a processed set that is never added to
MarkProcessedNever(processed, b, found) == processed

\* line 335: processed_entities.update(batch), whatever the batch found
MarkProcessed(processed, b, found) == processed \cup Range(b)

\* a frontier that forgets the neighbors found in this hop
EntitiesYetToProcessOfHopOnly(lst, neighbors, processed) ==
    Range(lst) \ processed

\* a frontier that keeps the processed entities
EntitiesYetToProcessUnfiltered(lst, neighbors, processed) ==
    Range(lst) \cup neighbors

\* line 345
EntitiesYetToProcess(lst, neighbors, processed) ==
    (Range(lst) \cup neighbors) \ processed

\* line 223 and lines 331-345: the batch returns and is merged
MergeBatch ==
    /\ pc = "as_completed"
    /\ AllResultsSeen(batch, futures)
    /\ processed_entities' = MarkProcessed(processed_entities, batch, newfound_triplets)
    /\ expanded_triplets' = expanded_triplets \cup newfound_triplets
    /\ qualifier_dictionary' = DictUpdate(qualifier_dictionary, batch_qualifier_dictionary)
    /\ new_neighbors' = new_neighbors \cup TailsOf(newfound_triplets)
    /\ entities_yet_to_process' =
           EntitiesYetToProcess(entities_to_process_per_hop, new_neighbors',
                                processed_entities')
    /\ pc' = "save_entities"
    /\ UNCHANGED <<stageVars, inputVars, diskVars, exit_status, restarts, logisticsVars,
                   entities_to_process_per_hop, hop, batch_start, batch,
                   batchVars, saveHist, procHist>>

\* ======================================= save_entity_expansion_checkpoint
\* The three files are written one after the other by three separate calls.

\* what one call of save_entity_expansion_checkpoint puts on disk, lines 250-260
Snapshot(frontier, triplets, qualifiers) ==
    [entities |-> WriteEntityLines(frontier),
     triplets |-> WriteTripletCsv(triplets),
     qualifiers |-> WriteQualifierCsv(qualifiers)]

\* lines 250-251
SaveEntities ==
    /\ pc = "save_entities"
    /\ ckpt' = [ckpt EXCEPT !.entities = WriteEntityLines(entities_yet_to_process)]
    /\ unfinished_save' = TRUE
    /\ snapshots' = snapshots \cup
           {Snapshot(entities_yet_to_process, expanded_triplets, qualifier_dictionary)}
    /\ pc' = "save_triplets"
    /\ UNCHANGED <<stageVars, inputVars, out, exit_status, restarts, logisticsVars, expandVars,
                   batchVars, saves_done, last_saved, ckpt_processed, procHist>>

\* lines 252-254
SaveTriplets ==
    /\ pc = "save_triplets"
    /\ ckpt' = [ckpt EXCEPT !.triplets = WriteTripletCsv(expanded_triplets)]
    /\ pc' = "save_qualifiers"
    /\ UNCHANGED <<stageVars, inputVars, out, exit_status, restarts, logisticsVars, expandVars,
                   batchVars, saveHist, procHist>>

\* lines 255-260, then back to the batch loop of line 312
SaveQualifiers ==
    /\ pc = "save_qualifiers"
    /\ ckpt' = [ckpt EXCEPT !.qualifiers = WriteQualifierCsv(qualifier_dictionary)]
    /\ unfinished_save' = FALSE
    /\ saves_done' = saves_done + 1
    /\ last_saved' = ckpt'
    /\ snapshots' = {ckpt'}
    /\ ckpt_processed' = inherited_processed \cup processed_entities
    /\ batch_start' = NextBatchStart(batch_start, entity_batch_size)
    /\ pc' = "batch_head"
    /\ UNCHANGED <<stageVars, inputVars, out, exit_status, restarts, logisticsVars,
                   expanded_triplets, qualifier_dictionary, entities_to_process_per_hop,
                   processed_entities, hop, new_neighbors, batch,
                   entities_yet_to_process, batchVars, procHist>>

\* ========================================== expand_triplet_set, hop's end
\* a next hop that visits every neighbor, processed or not
NextHopEntitiesUnfiltered(neighbors, processed) == neighbors

\* line 354
NextHopEntities(neighbors, processed) == neighbors \ processed

\* a hop loop without the early stop
NeverStopEarly(neighbors) == FALSE

\* line 349: if not new_neighbors
NoNewNeighbors(neighbors) == neighbors = {}

\* lines 348-356
HopTail ==
    /\ pc = "hop_tail"
    /\ IF NoNewNeighbors(new_neighbors)
       THEN /\ pc' = "final_save"
            /\ UNCHANGED <<entities_to_process_per_hop, hop>>
       ELSE /\ \E lst \in ListsOf(NextHopEntities(new_neighbors, processed_entities)) :
                   entities_to_process_per_hop' = lst
            /\ hop' = hop + 1
            /\ pc' = "hop_head"
    /\ UNCHANGED <<stageVars, inputVars, diskVars, exit_status, restarts, logisticsVars,
                   expanded_triplets, qualifier_dictionary, processed_entities,
                   new_neighbors, batch_start, batch, entities_yet_to_process,
                   batchVars, saveHist, procHist>>

\* ================================ expand_triplets_logistics, the final save
\* line 604
FinalTriplets(expanded, chkpntd) == expanded \cup chkpntd

\* line 605
FinalQualifiers(dict, chkpntd) == DictUpdate(dict, chkpntd)

\* lines 614-618: (head, rel, tail, str(qualifier)) or (head, rel, tail, "")
TripletsWithQualifiers(triplets, dict) ==
    { <<t[1], t[2], t[3], IF t \in DOMAIN dict THEN StrOf(dict[t]) ELSE EmptyString>> :
        t \in triplets }

\* lines 358-360 and 604-636; the process then ends normally
FinalSave ==
    /\ pc = "final_save"
    /\ LET all_triplets == FinalTriplets(expanded_triplets, chkpntd_triplets_processed)
           all_qualifiers == FinalQualifiers(qualifier_dictionary,
                                             chkpntd_qualifier_dictionary)
       IN out' = [exists |-> TRUE,
                  triplets |-> TripletsWithQualifiers(all_triplets, all_qualifiers),
                  entities |-> { t[1] : t \in all_triplets } \cup TailsOf(all_triplets),
                  relations |-> { t[2] : t \in all_triplets }]
    /\ pc' = "done"
    /\ exit_status' = EXIT_OK
    /\ ClearLocals
    /\ UNCHANGED <<stageVars, inputVars, ckpt, restarts, saveHist, procHist>>

\* ================================================= the process as a whole
Alive == pc \notin {"done", "aborted", "config_error", "crashed"}

\* the process is killed from outside (signal, power loss) at any point; the
\* kills followed are those a restart can still follow
Interrupt ==
    /\ Alive
    /\ restarts < MaxRestarts
    /\ pc' = "crashed"
    /\ exit_status' = 128 + 9
    /\ ClearLocals
    /\ UNCHANGED <<stageVars, inputVars, diskVars, restarts, saveHist, procHist>>

\* the operator runs the expand_entities stage again over the same disk
Restart ==
    /\ pc \in {"crashed", "aborted"}
    /\ restarts < MaxRestarts
    /\ restarts' = restarts + 1
    /\ pc' = "logistics"
    /\ exit_status' = EXIT_OK
    /\ saves_done' = 0
    /\ batches_begun' = 0
    /\ hop_batches' = 0
    /\ fetch_count' = NoFetches
    /\ fetch_failed' = {}
    /\ prompted' = FALSE
    /\ typed_answer' = NothingTyped
    /\ disk_at_start' = ckpt
    /\ last_saved' = ckpt
    /\ inherited_processed' = {}
    /\ resumed' = FALSE
    /\ resumed_from_snapshot' = FALSE
    /\ UNCHANGED <<stageVars, inputVars, diskVars, logisticsVars, expandVars, batchVars,
                   unfinished_save, ckpt_processed, snapshots>>

Next ==
    \/ LogisticsBegin
    \/ ExpandBegin
    \/ HopHead
    \/ BatchHead
    \/ WorkerStart
    \/ \E e \in Entities : FetchReturns(e)
    \/ \E e \in Entities : FetchFails(e)
    \/ \E e \in Entities : ResultOk(e)
    \/ \E e \in Entities : ResultFailed(e)
    \/ ProcessExit
    \/ MergeBatch
    \/ SaveEntities
    \/ SaveTriplets
    \/ SaveQualifiers
    \/ HopTail
    \/ FinalSave
    \/ Interrupt
    \/ Restart

Spec == Init /\ [][Next]_vars

\* One process from its start to its end: every step of the orchestrating
\* thread, of the executor's workers and of the fetches they run is taken
\* eventually (the interpreter schedules runnable threads, and every fetch
\* call returns or fails); the process may be killed but is not started again.
ProgramStep ==
    \/ LogisticsBegin
    \/ ExpandBegin
    \/ HopHead
    \/ BatchHead
    \/ WorkerStart
    \/ \E e \in Entities : FetchReturns(e)
    \/ \E e \in Entities : FetchFails(e)
    \/ \E e \in Entities : ResultOk(e)
    \/ \E e \in Entities : ResultFailed(e)
    \/ ProcessExit
    \/ MergeBatch
    \/ SaveEntities
    \/ SaveTriplets
    \/ SaveQualifiers
    \/ HopTail
    \/ FinalSave

OneProcessNext == ProgramStep \/ Interrupt

OneProcessSpec == Init /\ [][OneProcessNext]_vars /\ WF_vars(ProgramStep)

\* the steps of the orchestrating thread: lines 209-216 take the results that
\* as_completed(futures) yields, and as_completed is called without a timeout
OrchestratorStep ==
    \/ LogisticsBegin
    \/ ExpandBegin
    \/ HopHead
    \/ BatchHead
    \/ \E e \in Entities : ResultOk(e)
    \/ \E e \in Entities : ResultFailed(e)
    \/ ProcessExit
    \/ MergeBatch
    \/ SaveEntities
    \/ SaveTriplets
    \/ SaveQualifiers
    \/ HopTail
    \/ FinalSave

\* One process whose fetches may never complete: the orchestrating thread and
\* the executor's workers are scheduled, but nothing makes a running
\* retry_fetch call return or fail.
HangingFetchSpec ==
    Init /\ [][OneProcessNext]_vars /\ WF_vars(OrchestratorStep) /\ WF_vars(WorkerStart)

\* One process, run with a small or with the default target entity count
TargetSizes == {1, DEFAULT_TARGET_ENTITY_COUNT}

TargetInit ==
    /\ ExpandStageInit
    /\ target_size \in TargetSizes

TargetSpec == TargetInit /\ [][OneProcessNext]_vars

\* ================= one task of a batch, from its submission to its outcome
\* line 200: the retry bound handed to retry_fetch
RetriesPassedPlusOne(retries) == retries + 1

RetriesPassed(retries) == retries

\* retry_fetch makes an attempt: the first, or another after a transient failure
RetryAttempt ==
    /\ retry_pc \in {"submitted", "retrying"}
    /\ retry_attempts < RetriesPassed(max_retries)
    /\ retry_attempts' = retry_attempts + 1
    /\ retry_pc' = "attempting"
    /\ UNCHANGED <<retry_entity, max_retries, retry_failures, retry_newfound,
                   retry_exit_status>>

\* the attempt succeeds: retry_fetch returns what fetch_entity_triplet returned
AttemptSucceeds ==
    /\ retry_pc = "attempting"
    /\ retry_pc' = "returned"
    /\ UNCHANGED <<retry_entity, max_retries, retry_attempts, retry_failures,
                   retry_newfound, retry_exit_status>>

\* the attempt fails transiently: another attempt follows if the bound allows
\* one, otherwise retry_fetch raises
AttemptFails ==
    /\ retry_pc = "attempting"
    /\ retry_failures' = retry_failures + 1
    /\ retry_pc' = IF retry_attempts < RetriesPassed(max_retries) THEN "retrying"
                                                                  ELSE "raised"
    /\ UNCHANGED <<retry_entity, max_retries, retry_attempts, retry_newfound,
                   retry_exit_status>>

\* lines 209-216 and 223: the orchestrator takes the result into the batch
TaskResultOk ==
    /\ retry_pc = "returned"
    /\ retry_newfound' = retry_newfound \cup FetchTriplets(kg, retry_entity)
    /\ retry_pc' = "merged"
    /\ UNCHANGED <<retry_entity, max_retries, retry_attempts, retry_failures,
                   retry_exit_status>>

\* lines 218-221: the orchestrator sees the exception
TaskResultFailed ==
    /\ retry_pc = "raised"
    /\ retry_pc' = OnFetchError
    /\ UNCHANGED <<retry_entity, max_retries, retry_attempts, retry_failures,
                   retry_newfound, retry_exit_status>>

\* line 221: exit(-1)
TaskExit ==
    /\ retry_pc = "exiting"
    /\ retry_exit_status' = EXIT_UNRECOVERABLE
    /\ retry_pc' = "aborted"
    /\ UNCHANGED <<retry_entity, max_retries, retry_attempts, retry_failures,
                   retry_newfound>>

RetryInit ==
    /\ kg \in KnowledgeBases
    /\ ExpandStageIdle
    /\ JeopardyIdle
    /\ KnobsIdle
    /\ CreateIdle
    /\ ExtractIdle
    /\ InverseIdle
    /\ DedupIdle
    /\ SplitIdle
    /\ PruneIdle
    /\ retry_pc = "submitted"
    /\ retry_entity \in Entities
    /\ max_retries \in 1..MaxRetries
    /\ retry_attempts = 0
    /\ retry_failures = 0
    /\ retry_newfound = {}
    /\ retry_exit_status = EXIT_OK

mainVars == <<inputVars, diskVars, pc, exit_status, restarts, logisticsVars,
              expandVars, batchVars, saveHist, procHist>>

RetryNext ==
    /\ \/ RetryAttempt
       \/ AttemptSucceeds
       \/ AttemptFails
       \/ TaskResultOk
       \/ TaskResultFailed
       \/ TaskExit
    /\ UNCHANGED <<mainVars, splitVars, pruneVars, dedupVars, inverseVars, extractVars, createVars, knobVars, jeopardyVars>>

RetrySpec == RetryInit /\ [][RetryNext]_vars

\* ================================================== create_dataset_splits
\* The generator of the random module: a state that every draw advances. The
\* Mersenne Twister is abstracted as a linear congruential generator over
\* RngStates.
RngStates == 0..15
NextRandom(st) == (5 * st + 3) % 16

\* _randbelow(n): a value in 0..n-1 drawn from the generator in state st
RandBelow(st, n) == NextRandom(st) % n

\* a call that leaves the generator as it finds it
KeepRandomState(prior, s) == prior

\* line 431: random.seed(seed)
SeedRandom(prior, s) == s % 16

Swap(x, i, j) == [x EXCEPT ![i] = x[j], ![j] = x[i]]

\* random.shuffle(x): for i in reversed(range(1, len(x))): j = randbelow(i + 1);
\* x[i], x[j] = x[j], x[i]. The list x shuffled and the generator afterwards.
RECURSIVE ShuffleFrom(_, _, _)
ShuffleFrom(x, i, st) ==
    IF i < 2 THEN [list |-> x, rng |-> st]
    ELSE ShuffleFrom(Swap(x, i, 1 + RandBelow(st, i)), i - 1, NextRandom(st))

Shuffle(x, st) == ShuffleFrom(x, Len(x), st)

\* Python slice clamped to the list: lst[lo:hi] for any 0 <= lo, hi
PySlice(lst, lo, hi) ==
    LET h == Min(hi, Len(lst))
        l == Min(lo, h)
    IN Slice(lst, l, h)

\* a set of indices as the list that enumerate() built: ascending
RECURSIVE AscendingList(_)
AscendingList(S) ==
    IF S = {} THEN <<>>
    ELSE LET m == CHOOSE x \in S : \A y \in S : x <= y
         IN <<m>> \o AscendingList(S \ {m})

\* lines 444-447: relation_to_triplets[rel], indices counted from 0
IndicesOf(lst, rel) == { i \in 0..(Len(lst) - 1) : lst[i + 1][2] = rel }

\* the keys of relation_to_triplets in insertion order: first occurrence
RECURSIVE RelationsFrom(_, _, _)
RelationsFrom(lst, i, seen) ==
    IF i > Len(lst) THEN <<>>
    ELSE IF lst[i][2] \in seen THEN RelationsFrom(lst, i + 1, seen)
    ELSE <<lst[i][2]>> \o RelationsFrom(lst, i + 1, seen \cup {lst[i][2]})

RelationOrder(lst) == RelationsFrom(lst, 1, {})

\* a relation counts as sparse only below one split's minimum
TooFewExamplesForOneSplit(n) == n < min_examples_per_split

\* a relation with exactly three times the minimum counts as sparse too
TooFewExamplesInclusive(n) == n <= min_examples_per_split * 3

\* line 466
TooFewExamples(n) == n < min_examples_per_split * 3

\* a training share of min_examples_per_split indices, the rest left unassigned
TrainShareMinimum(shuffled, k) == PySlice(shuffled, k * 2, k * 3)

\* line 477: shuffled[min_examples_per_split*2:], all that is left of the relation
TrainShare(shuffled, k) == PySlice(shuffled, k * 2, Len(shuffled))

\* lines 465-477, relation by relation: the three index sets and the generator
RECURSIVE AllocateRelations(_, _, _, _)
AllocateRelations(lst, rels, st, acc) ==
    IF rels = <<>> THEN [split |-> acc, rng |-> st]
    ELSE LET triplet_indices == AscendingList(IndicesOf(lst, Head(rels))) IN
         IF TooFewExamples(Len(triplet_indices))
         THEN AllocateRelations(lst, Tail(rels), st,
                  [acc EXCEPT !.train = @ \cup Range(triplet_indices)])
         ELSE LET sh == Shuffle(triplet_indices, st)
                  shuffled == sh.list
                  k == min_examples_per_split
              IN AllocateRelations(lst, Tail(rels), sh.rng,
                  [valid |-> acc.valid \cup Range(PySlice(shuffled, 0, k)),
                   test |-> acc.test \cup Range(PySlice(shuffled, k, k * 2)),
                   train |-> acc.train \cup Range(TrainShare(shuffled, k))])

\* int(total * ratio), the ratio in percent
IntOfShare(total, percent) == (total * percent) \div 100

\* lines 450-453 and 479-499: the index sets after the remaining indices are
\* dealt out, and the generator
FillRemaining(total_triplets, split, st, train_percent, test_valid_percent) ==
    LET train_size == IntOfShare(total_triplets, train_percent)
        test_valid_size == total_triplets - train_size
        test_size == IntOfShare(test_valid_size, test_valid_percent)
        valid_size == test_valid_size - test_size
        remaining_indices ==
            (0..(total_triplets - 1)) \ (split.train \cup split.test \cup split.valid)
        sh == Shuffle(AscendingList(remaining_indices), st)
        train_needed == train_size - Cardinality(split.train)
        test_needed == test_size - Cardinality(split.test)
        valid_needed == valid_size - Cardinality(split.valid)
        list0 == sh.list
        train_fills == train_needed > 0
        list1 == IF train_fills THEN PySlice(list0, train_needed, Len(list0)) ELSE list0
        test_fills == test_needed > 0 /\ list1 # <<>>
        list2 == IF test_fills THEN PySlice(list1, test_needed, Len(list1)) ELSE list1
        valid_fills == valid_needed > 0 /\ list2 # <<>>
    IN [split |->
          [train |-> IF train_fills
                     THEN split.train \cup Range(PySlice(list0, 0, train_needed))
                     ELSE split.train,
           test |-> IF test_fills
                    THEN split.test \cup Range(PySlice(list1, 0, test_needed))
                    ELSE split.test,
           valid |-> IF valid_fills
                     THEN split.valid \cup Range(PySlice(list2, 0, valid_needed))
                     ELSE split.valid],
        rng |-> sh.rng]

\* lines 502-517: the triplets of an index set, one line each
SplitFile(lst, indices) ==
    LET order == AscendingList(indices)
    IN [i \in 1..Len(order) |-> lst[order[i] + 1]]

\* lines 428-432: the log line reads triplets[0], then the generator is seeded
SplitBegin ==
    /\ split_pc = "called"
    /\ split_calls' = split_calls + 1
    /\ IF triplet_list = <<>>
       THEN /\ split_pc' = "raised"
            /\ split_exit_status' = EXIT_UNCAUGHT_EXCEPTION
            /\ UNCHANGED rng
       ELSE /\ split_pc' = "allocating"
            /\ rng' = SeedRandom(rng, seed)
            /\ UNCHANGED split_exit_status
    /\ UNCHANGED <<splitInputs, train_indices, test_indices, valid_indices,
                   split_files, first_split>>

\* lines 434-477
AllocatePerRelation ==
    /\ split_pc = "allocating"
    /\ LET r == AllocateRelations(triplet_list, RelationOrder(triplet_list), rng, NoSplit)
       IN /\ train_indices' = r.split.train
          /\ test_indices' = r.split.test
          /\ valid_indices' = r.split.valid
          /\ rng' = r.rng
    /\ split_pc' = "filling"
    /\ UNCHANGED <<splitInputs, split_files, split_exit_status, split_calls, first_split>>

\* lines 479-499
FillRemainingSlots ==
    /\ split_pc = "filling"
    /\ LET r == FillRemaining(Len(triplet_list),
                              [train |-> train_indices, test |-> test_indices,
                               valid |-> valid_indices],
                              rng, train_ratio, test_valid_ratio)
       IN /\ train_indices' = r.split.train
          /\ test_indices' = r.split.test
          /\ valid_indices' = r.split.valid
          /\ rng' = r.rng
    /\ split_pc' = "writing"
    /\ UNCHANGED <<splitInputs, split_files, split_exit_status, split_calls, first_split>>

\* lines 501-522
WriteSplits ==
    /\ split_pc = "writing"
    /\ split_files' = [train |-> SplitFile(triplet_list, train_indices),
                       test |-> SplitFile(triplet_list, test_indices),
                       valid |-> SplitFile(triplet_list, valid_indices)]
    /\ first_split' = IF split_calls = 1
                      THEN [train |-> train_indices, test |-> test_indices,
                            valid |-> valid_indices]
                      ELSE first_split
    /\ split_pc' = "returned"
    /\ UNCHANGED <<splitInputs, rng, train_indices, test_indices, valid_indices,
                   split_exit_status, split_calls>>

\* the same call is made once more in the process, the generator as it was left
CallAgain ==
    /\ split_pc = "returned"
    /\ split_calls < MaxSplitCalls
    /\ split_pc' = "called"
    /\ train_indices' = {}
    /\ test_indices' = {}
    /\ valid_indices' = {}
    /\ UNCHANGED <<splitInputs, rng, split_files, split_exit_status, split_calls,
                   first_split>>

\* the triplets the split is checked over: one of each of two relations
SplitTripletUniverse == { <<"Q1", "P1", "Q3">>, <<"Q2", "P2", "Q3">> }
TripletLists == UNION { [1..n -> SplitTripletUniverse] : n \in 0..MaxTriplets }

SplitInit ==
    /\ kg = {}
    /\ ExpandStageIdle
    /\ JeopardyIdle
    /\ KnobsIdle
    /\ CreateIdle
    /\ ExtractIdle
    /\ InverseIdle
    /\ DedupIdle
    /\ RetryIdle
    /\ PruneIdle
    /\ triplet_list \in TripletLists
    /\ train_ratio \in {50, 80}
    /\ test_valid_ratio = 50
    /\ seed \in {7, 42}
    /\ rng \in {0, 5}
    /\ split_pc = "called"
    /\ train_indices = {}
    /\ test_indices = {}
    /\ valid_indices = {}
    /\ split_files = NoSplitFiles
    /\ split_exit_status = EXIT_OK
    /\ split_calls = 0
    /\ first_split = NoSplit

SplitNext ==
    /\ \/ SplitBegin
       \/ AllocatePerRelation
       \/ FillRemainingSlots
       \/ WriteSplits
       \/ CallAgain
    /\ UNCHANGED <<mainVars, retryVars, pruneVars, dedupVars, inverseVars, extractVars, createVars, knobVars, jeopardyVars>>

SplitSpec == SplitInit /\ [][SplitNext]_vars

\* ============================================ pruning_expanded_triplets
\* line 742: read_csv(sep="\t", header=None, names=[...]): no line of the file
\* is taken as the header, every line is a row
ReadCsvNoHeader(lines) == lines

\* line 761: to_csv(index=False, sep="\t"): the column names, then the rows
ToCsv(rows) == <<HeaderRow>> \o rows

\* the entities and relations that occur in a data frame
EntitiesOfFrame(rows) == { rows[i][1] : i \in DOMAIN rows } \cup { rows[i][3] : i \in DOMAIN rows }
RelationsOfFrame(rows) == { rows[i][2] : i \in DOMAIN rows }

\* triplet-occurrence counts: the rows an entity is head or tail of, the rows
\* a relation is the relation of
EntityCount(rows, e) == Cardinality({ i \in DOMAIN rows : rows[i][1] = e \/ rows[i][3] = e })
RelationCount(rows, r) == Cardinality({ i \in DOMAIN rows : rows[i][2] = r })

\* get_relations_and_entities_to_prune: the entities and relations that occur
\* fewer than pruning_num times, the non-prunable ones left out
EntitiesToPrune(rows, non_prunable, num) ==
    { e \in EntitiesOfFrame(rows) : EntityCount(rows, e) < num } \ non_prunable
RelationsToPrune(rows, non_prunable, num) ==
    { r \in RelationsOfFrame(rows) : RelationCount(rows, r) < num } \ non_prunable

\* the relation file handed over as the protected entities
NonPrunableEntitiesSwapped(ents, rels) == rels

\* line 748: non_prunable_entities=set(non_prunable_entities)
NonPrunableEntitiesPassed(ents, rels) == ents

\* line 749: non_prunable_relations=set(non_prunable_relations)
NonPrunableRelationsPassed(ents, rels) == rels

\* lines 729-743: the protected sets are already read; the triplet file is
\* read into the data frame
LoadForPruning ==
    /\ prune_pc = "start"
    /\ expanded_triplets_df' = ReadCsvNoHeader(tab_file)
    /\ prune_pc' = "loaded"
    /\ UNCHANGED <<pruneInputs, ent_to_prune, rel_to_prune, pruned_file>>

\* lines 746-751
ComputePruneSets ==
    /\ prune_pc = "loaded"
    /\ ent_to_prune' = EntitiesToPrune(expanded_triplets_df,
                           NonPrunableEntitiesPassed(non_prunable_entities,
                                                     non_prunable_relations),
                           pruning_num)
    /\ rel_to_prune' = RelationsToPrune(expanded_triplets_df,
                           NonPrunableRelationsPassed(non_prunable_entities,
                                                      non_prunable_relations),
                           pruning_num)
    /\ prune_pc' = "computed"
    /\ UNCHANGED <<pruneInputs, expanded_triplets_df, pruned_file>>

\* lines 756-758: the condition a kept row satisfies
KeptRow(row, ents, rels) ==
    /\ row[1] \notin ents
    /\ row[3] \notin ents
    /\ row[2] \notin rels

\* lines 755-759: boolean indexing keeps the rows in order, duplicates included
RECURSIVE SelectRows(_, _, _)
SelectRows(rows, ents, rels) ==
    IF rows = <<>> THEN <<>>
    ELSE IF KeptRow(Head(rows), ents, rels)
         THEN <<Head(rows)>> \o SelectRows(Tail(rows), ents, rels)
         ELSE SelectRows(Tail(rows), ents, rels)

\* lines 755-761
FilterPruned ==
    /\ prune_pc = "computed"
    /\ pruned_file' = ToCsv(SelectRows(expanded_triplets_df, ent_to_prune, rel_to_prune))
    /\ prune_pc' = "done"
    /\ UNCHANGED <<pruneInputs, expanded_triplets_df, ent_to_prune, rel_to_prune>>

\* the files a run of convert_triplets_for_stats leaves: the header line and
\* up to MaxRows triplets
TabFiles ==
    { <<HeaderRow>> \o rows : rows \in UNION { [1..n -> TripletUniverse] : n \in 0..MaxRows } }

PruneInit ==
    /\ kg = {}
    /\ ExpandStageIdle
    /\ JeopardyIdle
    /\ KnobsIdle
    /\ CreateIdle
    /\ ExtractIdle
    /\ InverseIdle
    /\ DedupIdle
    /\ RetryIdle
    /\ SplitIdle
    /\ tab_file \in TabFiles
    /\ non_prunable_entities \in SUBSET {"Q1", "Q3"}
    /\ non_prunable_relations \in SUBSET {"P1"}
    /\ pruning_num \in 0..MaxThreshold
    /\ prune_pc = "start"
    /\ expanded_triplets_df = <<>>
    /\ ent_to_prune = {}
    /\ rel_to_prune = {}
    /\ pruned_file = <<>>

PruneNext ==
    /\ \/ LoadForPruning
       \/ ComputePruneSets
       \/ FilterPruned
    /\ UNCHANGED <<mainVars, retryVars, splitVars, dedupVars, inverseVars, extractVars, createVars, knobVars, jeopardyVars>>

PruneSpec == PruneInit /\ [][PruneNext]_vars

\* ================================================ the triplet sets as sets
\* A Python set of tuples is modelled by the entries of its table: a list in
\* which membership is decided by == on the tuples.

\* two triplets that differ in the relation only
DedupUniverse == { <<"Q1", "P1", "Q3">>, <<"Q1", "P2", "Q3">> }

\* a collection that takes every item it is handed
ListAppend(entries, item) == Append(entries, item)

\* set.add(item): tuple equality compares head, relation and tail
SetAdd(entries, item) ==
    IF \E i \in DOMAIN entries : entries[i] = item THEN entries ELSE Append(entries, item)

\* set.update(items)
RECURSIVE SetUpdate(_, _)
SetUpdate(entries, items) ==
    IF items = <<>> THEN entries
    ELSE SetUpdate(SetAdd(entries, Head(items)), Tail(items))

\* lines 614-618: the row of a triplet of the final set
RowWithQualifiers(t, dict) ==
    <<t[1], t[2], t[3], IF t \in DOMAIN dict THEN StrOf(dict[t]) ELSE EmptyString>>

\* lines 209-216: one task's result enters newfound_triplets
DedupTaskResult ==
    /\ dedup_pc = "batches"
    /\ dedup_pending # <<>>
    /\ Head(dedup_pending) # <<>>
    /\ LET result == Head(Head(dedup_pending)) IN
         /\ dedup_newfound' = SetUpdate(dedup_newfound, result)
         /\ dedup_offered' = dedup_offered \o result
    /\ dedup_pending' = <<Tail(Head(dedup_pending))>> \o Tail(dedup_pending)
    /\ UNCHANGED <<dedup_pc, dedup_chkpntd, dedup_expanded, dedup_rows>>

\* lines 223 and 337: the batch returns its set, which enters expanded_triplets
DedupBatchMerged ==
    /\ dedup_pc = "batches"
    /\ dedup_pending # <<>>
    /\ Head(dedup_pending) = <<>>
    /\ dedup_expanded' = SetUpdate(dedup_expanded, dedup_newfound)
    /\ dedup_newfound' = <<>>
    /\ dedup_pending' = Tail(dedup_pending)
    /\ dedup_pc' = IF Tail(dedup_pending) = <<>> THEN "returned" ELSE "batches"
    /\ UNCHANGED <<dedup_chkpntd, dedup_rows, dedup_offered>>

\* line 604: expanded_triplets.update(chkpntd_triplets_processed)
DedupCheckpointMerged ==
    /\ dedup_pc = "returned"
    /\ dedup_expanded' = SetUpdate(dedup_expanded, dedup_chkpntd)
    /\ dedup_offered' = dedup_offered \o dedup_chkpntd
    /\ dedup_pc' = "merged"
    /\ UNCHANGED <<dedup_pending, dedup_chkpntd, dedup_newfound, dedup_rows>>

\* lines 610-621: one row per member of the final set
DedupFinalRows ==
    /\ dedup_pc = "merged"
    /\ dedup_rows' = [i \in DOMAIN dedup_expanded |->
                         RowWithQualifiers(dedup_expanded[i], QualifierPayload)]
    /\ dedup_pc' = "done"
    /\ UNCHANGED <<dedup_pending, dedup_chkpntd, dedup_newfound, dedup_expanded,
                   dedup_offered>>

\* what a fetch returns: up to MaxFound triplets
FetchResults == UNION { [1..n -> DedupUniverse] : n \in 0..MaxFound }

\* the rows of a checkpoint file: those of a set written earlier
CheckpointLists == UNION { ListsOf(S) : S \in SUBSET DedupUniverse }

\* a batch of two entities, then a batch of one; a checkpoint or none
DedupInit ==
    /\ kg = {}
    /\ ExpandStageIdle
    /\ JeopardyIdle
    /\ KnobsIdle
    /\ CreateIdle
    /\ ExtractIdle
    /\ InverseIdle
    /\ RetryIdle
    /\ SplitIdle
    /\ PruneIdle
    /\ dedup_pc = "batches"
    /\ \E first \in [1..2 -> FetchResults], second \in [1..1 -> FetchResults] :
          dedup_pending = <<first, second>>
    /\ dedup_chkpntd \in CheckpointLists
    /\ dedup_newfound = <<>>
    /\ dedup_expanded = <<>>
    /\ dedup_rows = <<>>
    /\ dedup_offered = <<>>

DedupNext ==
    /\ \/ DedupTaskResult
       \/ DedupBatchMerged
       \/ DedupCheckpointMerged
       \/ DedupFinalRows
    /\ UNCHANGED <<mainVars, retryVars, splitVars, pruneVars, inverseVars, extractVars, createVars, knobVars, jeopardyVars>>

DedupSpec == DedupInit /\ [][DedupNext]_vars

\* ============================== triplet post-processor: inverse relations
\* The raw triplets between two entities: one relation in one direction, two
\* in the other, and one of them in both.
InverseUniverse ==
    { <<"Q1", "P1", "Q2">>, <<"Q2", "P2", "Q1">>, <<"Q2", "P3", "Q1">>, <<"Q1", "P3", "Q2">> }
InverseRelations == { t[2] : t \in InverseUniverse }

\* the deduplicated triplets of a raw input
PresentTriplets(freq) == { t \in InverseUniverse : freq[t] > 0 }

\* (A, r1, B) with (B, r2, A) also present
Opposed(freq, r1, r2) ==
    { t \in PresentTriplets(freq) :
        t[2] = r1 /\ <<t[3], r2, t[1]>> \in PresentTriplets(freq) }

\* candidate pairs (r1, r2), r1 # r2, seen as (A, r1, B) and (B, r2, A)
CandidatePairs(freq) ==
    { c \in InverseRelations \X InverseRelations :
        c[1] # c[2] /\ Opposed(freq, c[1], c[2]) # {} }

RECURSIVE SumOfFreq(_, _)
SumOfFreq(freq, T) ==
    IF T = {} THEN 0
    ELSE LET t == CHOOSE x \in T : TRUE IN freq[t] + SumOfFreq(freq, T \ {t})

\* the weight of a candidate: how often r1 appears in that orientation
CandidateWeight(freq, c) == SumOfFreq(freq, Opposed(freq, c[1], c[2]))

\* a relation counts as assigned only when it is the primary of a pair
AssignedAsPrimary(rel, committed) == \E c \in committed : c[1] = rel

\* a relation is assigned when it is the primary or the claimed inverse of a
\* committed pair
Assigned(rel, committed) == \E c \in committed : c[1] = rel \/ c[2] = rel

\* the partner of a relation in the committed pairs, in either role
InversePartners(rel, committed) ==
    { c[2] : c \in { x \in committed : x[1] = rel } } \cup
    { c[1] : c \in { x \in committed : x[2] = rel } }

\* candidate detection over the deduplicated triplets
InverseDetect ==
    /\ inv_pc = "detect"
    /\ inv_candidates' = CandidatePairs(inv_freq)
    /\ inv_pc' = "greedy"
    /\ UNCHANGED <<inv_freq, inv_committed, inv_pending, inv_emitted>>

\* the greedy pass visits the candidates in descending weight; candidates of
\* equal weight come in any order
InverseGreedyStep ==
    /\ inv_pc = "greedy"
    /\ inv_candidates # {}
    /\ \E c \in inv_candidates :
          /\ \A d \in inv_candidates :
                CandidateWeight(inv_freq, d) <= CandidateWeight(inv_freq, c)
          /\ inv_candidates' = inv_candidates \ {c}
          /\ inv_committed' =
                IF Assigned(c[1], inv_committed) \/ Assigned(c[2], inv_committed)
                THEN inv_committed
                ELSE inv_committed \cup {c}
    /\ UNCHANGED <<inv_pc, inv_freq, inv_pending, inv_emitted>>

\* the pairs are committed; the triplets are emitted next
InverseCommitted ==
    /\ inv_pc = "greedy"
    /\ inv_candidates = {}
    /\ inv_pending' = PresentTriplets(inv_freq)
    /\ inv_pc' = "emit"
    /\ UNCHANGED <<inv_freq, inv_candidates, inv_committed, inv_emitted>>

\* a triplet is dropped if its logical inverse has already been emitted; the
\* triplets come in any order
InverseEmit ==
    /\ inv_pc = "emit"
    /\ inv_pending # {}
    /\ \E t \in inv_pending :
          /\ inv_pending' = inv_pending \ {t}
          /\ inv_emitted' =
                IF \E q \in InversePartners(t[2], inv_committed) :
                      <<t[3], q, t[1]>> \in inv_emitted
                THEN inv_emitted
                ELSE inv_emitted \cup {t}
    /\ UNCHANGED <<inv_pc, inv_freq, inv_candidates, inv_committed>>

InverseDone ==
    /\ inv_pc = "emit"
    /\ inv_pending = {}
    /\ inv_pc' = "done"
    /\ UNCHANGED <<inv_freq, inv_candidates, inv_committed, inv_pending, inv_emitted>>

InverseInit ==
    /\ kg = {}
    /\ ExpandStageIdle
    /\ JeopardyIdle
    /\ KnobsIdle
    /\ CreateIdle
    /\ ExtractIdle
    /\ RetryIdle
    /\ SplitIdle
    /\ PruneIdle
    /\ DedupIdle
    /\ inv_pc = "detect"
    /\ inv_freq \in [InverseUniverse -> 0..MaxFreq]
    /\ inv_candidates = {}
    /\ inv_committed = {}
    /\ inv_pending = {}
    /\ inv_emitted = {}

InverseNext ==
    /\ \/ InverseDetect
       \/ InverseGreedyStep
       \/ InverseCommitted
       \/ InverseEmit
       \/ InverseDone
    /\ UNCHANGED <<mainVars, retryVars, splitVars, pruneVars, dedupVars, extractVars, createVars, knobVars, jeopardyVars>>

InverseSpec == InverseInit /\ [][InverseNext]_vars

\* ======================================================= extract_entities
\* the keys of a record that extract_mquake_entities reads; "triples" and
\* "triples_labeled" are keys of example["orig"]
FieldsRead == {"requested_rewrite", "orig", "triples", "triples_labeled"}

\* the identifiers of a rewrite, as the characters startswith looks at
RewriteOk == [keys |-> {"relation_id", "target_new", "id"},
              relation_id |-> <<"P", "5">>, id |-> <<"Q", "9">>]
RewriteOdd == [keys |-> {"relation_id", "target_new"},
               relation_id |-> <<"X", "5">>, id |-> <<>>]
RewriteLiteral == [keys |-> {"target_new", "id"},
                   relation_id |-> <<>>, id |-> <<"L", "7">>]

\* a prefix test that any non-empty identifier passes
StartsWithAnything(text, prefix) == Len(text) >= 1

\* str.startswith(prefix) for a one-character prefix
StartsWith(text, prefix) == Len(text) >= 1 /\ text[1] = prefix

\* the records a dataset file may hold: every key there or one missing
Examples ==
    { [keys |-> k, triples |-> t, requested_rewrite |-> w] :
        k \in {FieldsRead} \cup { FieldsRead \ {f} : f \in FieldsRead },
        t \in { << <<"Q1", "P1", "Q3">> >>, << <<"Q2", "P2", "Q3">>, <<"Q1", "P1", "Q3">> >> },
        w \in { <<RewriteOk>>, <<RewriteOdd>>, <<RewriteLiteral, RewriteOk>> } }

\* the shape test without the key of the original triplets
AssertedShapeWithoutTriples(example) ==
    /\ "requested_rewrite" \in example.keys
    /\ "orig" \in example.keys

\* lines 41-45 of utils/mquake.py: the assert
AssertedShape(example) ==
    /\ "requested_rewrite" \in example.keys
    /\ "orig" \in example.keys
    /\ "triples" \in example.keys

\* lines 53-54: example["orig"]["triples_labeled"]
HasTriplesLabeled(example) == "triples_labeled" \in example.keys

\* lines 47-50
HeadsAndTails(example) ==
    { example.triples[i][1] : i \in DOMAIN example.triples } \cup
    { example.triples[i][3] : i \in DOMAIN example.triples }
RelationsOfExample(example) == { example.triples[i][2] : i \in DOMAIN example.triples }

\* lines 56-63
RewriteRelations(example) ==
    { w.relation_id : w \in { x \in Range(example.requested_rewrite) :
          "relation_id" \in x.keys /\ StartsWith(x.relation_id, "P") } }
RewriteEntities(example) ==
    { w.id : w \in { x \in Range(example.requested_rewrite) :
          "target_new" \in x.keys /\ "id" \in x.keys /\ StartsWith(x.id, "Q") } }

\* utils/mquake.py lines 39-63: one round of the loop over the records
ExtractExample ==
    /\ extract_pc = "examples"
    /\ examples_done < Len(mquake_data)
    /\ LET example == mquake_data[examples_done + 1] IN
         IF ~AssertedShape(example)
         THEN /\ extract_pc' = "raised"
              /\ extract_error' = "AssertionError"
              /\ UNCHANGED <<examples_done, seed_entities, seed_relations,
                             rr_entities, rr_relations>>
         ELSE IF ~HasTriplesLabeled(example)
         THEN /\ extract_pc' = "raised"
              /\ extract_error' = "KeyError"
              /\ seed_entities' = seed_entities \cup HeadsAndTails(example)
              /\ seed_relations' = seed_relations \cup RelationsOfExample(example)
              /\ UNCHANGED <<examples_done, rr_entities, rr_relations>>
         ELSE /\ seed_entities' = seed_entities \cup HeadsAndTails(example)
              /\ seed_relations' = seed_relations \cup RelationsOfExample(example)
              /\ rr_relations' = rr_relations \cup RewriteRelations(example)
              /\ rr_entities' = rr_entities \cup RewriteEntities(example)
              /\ examples_done' = examples_done + 1
              /\ UNCHANGED <<extract_pc, extract_error>>
    /\ UNCHANGED <<mquake_data, list_files>>

\* utils/mquake.py line 72 and main lines 678-687: the four sets are returned
ExtractReturn ==
    /\ extract_pc = "examples"
    /\ examples_done = Len(mquake_data)
    /\ extract_pc' = "saving"
    /\ UNCHANGED <<mquake_data, examples_done, seed_entities, seed_relations,
                   rr_entities, rr_relations, extract_error, list_files>>

\* main lines 690-692: for entity in sorted(ents): f.write(f"{entity}\n")
SaveSortedLines(ents) == [exists |-> TRUE, header |-> <<>>, rows |-> ents]

\* main line 687: entities_to_save
EntitiesToSave == <<seed_entities, seed_relations, rr_entities, rr_relations>>

FilesSaved == Cardinality({ f \in Range(ListFileNames) : list_files[f].exists })

\* main lines 689-693: one round of the loop over the four paths
ExtractSave ==
    /\ extract_pc = "saving"
    /\ LET k == FilesSaved + 1 IN
         /\ list_files' = [list_files EXCEPT
                              ![ListFileNames[k]] = SaveSortedLines(EntitiesToSave[k])]
         /\ extract_pc' = IF k = Len(ListFileNames) THEN "done" ELSE "saving"
    /\ UNCHANGED <<mquake_data, examples_done, seed_entities, seed_relations,
                   rr_entities, rr_relations, extract_error>>

ExtractInit ==
    /\ kg = {}
    /\ ExpandStageIdle
    /\ JeopardyIdle
    /\ KnobsIdle
    /\ CreateIdle
    /\ RetryIdle
    /\ SplitIdle
    /\ PruneIdle
    /\ DedupIdle
    /\ InverseIdle
    /\ extract_pc = "examples"
    /\ mquake_data \in UNION { [1..n -> Examples] : n \in 1..MaxRecords }
    /\ examples_done = 0
    /\ seed_entities = {}
    /\ seed_relations = {}
    /\ rr_entities = {}
    /\ rr_relations = {}
    /\ extract_error = "none"
    /\ list_files = NoListFiles

ExtractNext ==
    /\ \/ ExtractExample
       \/ ExtractReturn
       \/ ExtractSave
    /\ UNCHANGED <<mainVars, retryVars, splitVars, pruneVars, dedupVars, inverseVars, createVars, knobVars, jeopardyVars>>

ExtractSpec == ExtractInit /\ [][ExtractNext]_vars

\* ================================================== jeopardyqa_2_valids.py
\* The Jeopardy question filter.  A row of the question file carries the list
\* of entities linked in the question (Question-Qid) and the list of answer
\* entities (Answer-Qid); the other columns are not touched by the filter.
QuestionQidLists ==
    { <<>>, <<"Q1">>, <<"Q1", "Q1">>, <<"Q1", "Q3">>, <<"Q3", "Q2", "Q1">>, <<"Q4", "Q3">> }
AnswerQidLists == { <<>>, <<"Q3">>, <<"Q2">>, <<"Q4", "Q3">> }
JeopardyRows == [question_qid : QuestionQidLists, answer_qid : AnswerQidLists]
JeopardyTripletSets ==
    { {}, { <<"Q1", "P1", "Q3">> }, { <<"Q1", "P1", "Q3">>, <<"Q3", "P2", "Q4">> } }
\* the entities of the node data file: all of them, or all but Q4
NodeDataSets == { Entities, {"Q1", "Q2", "Q3"} }

\* line 49: set(triplets['head'].tolist()) | set(triplets['tail'].tolist())
Nodes(triplets) == { t[1] : t \in triplets } \cup { t[3] : t \in triplets }

\* line 71: a_rdfs.issubset(nodes)
AnswersInGraph(a_rdfs, nodes) == a_rdfs \subseteq nodes

\* the test line 75 keeps as a comment: not(intersection) and len(intersection) < 2
TooFewQuestionEntitiesOld(intersection) ==
    intersection = {} /\ Cardinality(intersection) < 2

\* line 76: len(intersection) < 2
TooFewQuestionEntities(intersection) == Cardinality(intersection) < 2

\* line 83: node_data[node_data['QID'] == q]['Title'].tolist()[0] for every q
\* of intersection; the [0] raises IndexError for a q without a row
HasTitles(intersection, titled) == intersection \subseteq titled

\* lines 80-81: row.copy() with Question-Qid set to list(intersection); the
\* copy keeps the index label of the row
RowCopy(i0, row, qids) ==
    [index |-> i0, question_qid |-> qids, answer_qid |-> row.answer_qid]

\* pd.DataFrame(filtered_rows).to_csv(path, index=False): the rows in list
\* order, without the index
JeopardyCsv(rows) ==
    [exists |-> TRUE,
     rows |-> [k \in DOMAIN rows |-> [question_qid |-> rows[k].question_qid,
                                      answer_qid |-> rows[k].answer_qid]]]

\* lines 66-85: one pass of the loop over jeopardy_df.iterrows()
JeopardyRow ==
    /\ jeopardy_error = "none"
    /\ ~jeopardy_output.exists
    /\ rows_seen < Len(jeopardy_df)
    /\ LET i0 == rows_seen + 1
           row == jeopardy_df[i0]
           nodes == Nodes(jeopardy_triplets)
           q_rdfs == Range(row.question_qid)
           a_rdfs == Range(row.answer_qid)
           intersection == q_rdfs \cap nodes
       IN  /\ rows_seen' = i0
           /\ IF ~AnswersInGraph(a_rdfs, nodes)
              THEN UNCHANGED <<filtered_rows, jeopardy_error>>
              ELSE IF TooFewQuestionEntities(intersection)
              THEN UNCHANGED <<filtered_rows, jeopardy_error>>
              ELSE IF ~HasTitles(intersection, node_data)
              THEN /\ jeopardy_error' = "IndexError"
                   /\ UNCHANGED filtered_rows
              ELSE /\ \E qids \in ListsOf(intersection) :
                         filtered_rows' = Append(filtered_rows, RowCopy(i0, row, qids))
                   /\ UNCHANGED jeopardy_error
    /\ UNCHANGED <<jeopardy_df, jeopardy_triplets, node_data, jeopardy_output>>

\* lines 88-91: the kept rows are written once the loop has ended
JeopardySave ==
    /\ jeopardy_error = "none"
    /\ ~jeopardy_output.exists
    /\ rows_seen = Len(jeopardy_df)
    /\ jeopardy_output' = JeopardyCsv(filtered_rows)
    /\ UNCHANGED <<jeopardy_df, jeopardy_triplets, node_data, rows_seen, filtered_rows,
                   jeopardy_error>>

JeopardyInit ==
    /\ kg = {}
    /\ ExpandStageIdle
    /\ KnobsIdle
    /\ CreateIdle
    /\ RetryIdle
    /\ SplitIdle
    /\ PruneIdle
    /\ DedupIdle
    /\ InverseIdle
    /\ ExtractIdle
    /\ jeopardy_df \in UNION { [1..n -> JeopardyRows] : n \in 0..MaxQuestions }
    /\ jeopardy_triplets \in JeopardyTripletSets
    /\ node_data \in NodeDataSets
    /\ rows_seen = 0
    /\ filtered_rows = <<>>
    /\ jeopardy_output = NoJeopardyFile
    /\ jeopardy_error = "none"

JeopardyNext ==
    /\ \/ JeopardyRow
       \/ JeopardySave
    /\ UNCHANGED <<mainVars, retryVars, splitVars, pruneVars, dedupVars, inverseVars,
                   extractVars, createVars, knobVars>>

JeopardySpec == JeopardyInit /\ [][JeopardyNext]_vars

\* ========================================================= create_dataset
\* the stage the error message of lines 770-774 tells the user to run first
MissingPrerequisiteMessage == "run convert_triplets_for_stats before create_dataset"

\* a check that lets every path through
PrerequisiteNeverMissing(exists) == FALSE

\* line 769: if not os.path.exists(...)
PrerequisiteMissing(exists) == ~exists

\* lines 779-784: line 0 is skipped, every other line is split at the tabs
TripletsOfFile(lines) ==
    [i \in 1..(Len(lines) - 1) |-> <<lines[i + 1][1], lines[i + 1][2], lines[i + 1][3]>>]

\* lines 764-775
CreateDatasetCheck ==
    /\ split_pc = "main"
    /\ IF PrerequisiteMissing(tab_file_exists)
       THEN /\ error_logged' = MissingPrerequisiteMessage
            /\ split_exit_status' = EXIT_UNRECOVERABLE
            /\ split_pc' = "exited"
       ELSE /\ split_pc' = "loading"
            /\ UNCHANGED <<error_logged, split_exit_status>>
    /\ UNCHANGED <<tab_file_exists, splitInputs, rng, train_indices, test_indices,
                   valid_indices, split_files, split_calls, first_split>>

\* lines 778-794: open() raises if there is no file; else the triplets are
\* read and create_dataset_splits is called
CreateDatasetLoad ==
    /\ split_pc = "loading"
    /\ IF tab_file_exists
       THEN /\ triplet_list' = TripletsOfFile(tab_file)
            /\ split_pc' = "called"
            /\ UNCHANGED split_exit_status
       ELSE /\ split_pc' = "raised"
            /\ split_exit_status' = EXIT_UNCAUGHT_EXCEPTION
            /\ UNCHANGED triplet_list
    /\ UNCHANGED <<createVars, train_ratio, test_valid_ratio, seed, rng, train_indices,
                   test_indices, valid_indices, split_files, split_calls, first_split>>

\* train, test and valid files left by an earlier run
OldSplitFiles == [train |-> << <<"Q3", "P1", "Q4">> >>, test |-> << <<"Q3", "P2", "Q1">> >>,
                  valid |-> << <<"Q2", "P2", "Q3">> >>]

\* main is entered in create_dataset mode: the generator is seeded (line 650),
\* the triplet file is there or not, the split files are old or absent
CreateDatasetInit ==
    /\ kg = {}
    /\ ExpandStageIdle
    /\ JeopardyIdle
    /\ KnobsIdle
    /\ RetryIdle
    /\ DedupIdle
    /\ InverseIdle
    /\ ExtractIdle
    /\ tab_file_exists \in BOOLEAN
    /\ tab_file \in IF tab_file_exists THEN { <<HeaderRow>> \o rows : rows \in
                       UNION { [1..n -> TripletUniverse] : n \in 0..MaxRows } }
                    ELSE { <<>> }
    /\ error_logged = "none"
    /\ non_prunable_entities = {}
    /\ non_prunable_relations = {}
    /\ pruning_num = 0
    /\ prune_pc = "idle"
    /\ expanded_triplets_df = <<>>
    /\ ent_to_prune = {}
    /\ rel_to_prune = {}
    /\ pruned_file = <<>>
    /\ triplet_list = <<>>
    /\ train_ratio = 80
    /\ test_valid_ratio = 50
    /\ seed \in {7, 42}
    /\ rng = SeedRandom(0, seed)
    /\ split_pc = "main"
    /\ train_indices = {}
    /\ test_indices = {}
    /\ valid_indices = {}
    /\ split_files \in {NoSplitFiles, OldSplitFiles}
    /\ split_exit_status = EXIT_OK
    /\ split_calls = 0
    /\ first_split = NoSplit

CreateDatasetNext ==
    /\ \/ CreateDatasetCheck
       \/ CreateDatasetLoad
       \/ SplitBegin /\ UNCHANGED createVars
       \/ AllocatePerRelation /\ UNCHANGED createVars
       \/ FillRemainingSlots /\ UNCHANGED createVars
       \/ WriteSplits /\ UNCHANGED createVars
    /\ UNCHANGED <<mainVars, retryVars, pruneVars, dedupVars, inverseVars, extractVars, knobVars, jeopardyVars>>

CreateDatasetSpec == CreateDatasetInit /\ [][CreateDatasetNext]_vars

\* ===================== the stages in sequence, from the expansion to the load
\* lines 624-625: DataFrame(rows, columns=ETWQ_COLUMNS).to_csv(path, index=False):
\* the column names, then one line per triplet
ExpandedTripletsFile(rows) == <<ETWQ_COLUMNS>> \o rows

\* line 723: df.loc[:, ["head", "relation", "tail"]]
WithoutQualifiers(frame) ==
    [i \in DOMAIN frame |-> <<frame[i][1], frame[i][2], frame[i][3]>>]

\* lines 716-725, convert_triplets_for_stats: the file of the expansion is
\* read with header=None, the qualifier column is dropped and the frame is
\* written with its column names
ConvertTriplets ==
    /\ pc = "done"
    /\ out.exists
    /\ ~tab_file_exists
    /\ \E rows \in ListsOf(out.triplets) :
          tab_file' = ToCsv(WithoutQualifiers(ReadCsvNoHeader(ExpandedTripletsFile(rows))))
    /\ tab_file_exists' = TRUE
    /\ UNCHANGED <<mainVars, retryVars, splitVars, dedupVars, inverseVars, extractVars,
                   knobVars, error_logged, non_prunable_entities, non_prunable_relations,
                   pruning_num, prune_pc, expanded_triplets_df, ent_to_prune, rel_to_prune,
                   pruned_file, jeopardyVars>>

\* the expand_entities stage about to start on an empty disk; the later modes
\* have not run
PipelineInit ==
    /\ kg \in KnowledgeBases
    /\ og_entities \in (SUBSET SeedCandidates) \ {{}}
    /\ expansion_hops \in 1..MaxHops
    /\ entity_batch_size \in 1..MaxBatchSize
    /\ max_workers \in 1..MaxWorkers
    /\ target_size = DEFAULT_TARGET_ENTITY_COUNT
    /\ pc = "logistics"
    /\ ProcessNotStarted
    /\ RetryIdle
    /\ DedupIdle
    /\ InverseIdle
    /\ ExtractIdle
    /\ KnobsIdle
    /\ JeopardyIdle
    /\ tab_file_exists = FALSE
    /\ tab_file = <<>>
    /\ error_logged = "none"
    /\ non_prunable_entities = {}
    /\ non_prunable_relations = {}
    /\ pruning_num = 0
    /\ prune_pc = "start"
    /\ expanded_triplets_df = <<>>
    /\ ent_to_prune = {}
    /\ rel_to_prune = {}
    /\ pruned_file = <<>>
    /\ triplet_list = <<>>
    /\ train_ratio = 80
    /\ test_valid_ratio = 50
    /\ seed = 42
    /\ rng = SeedRandom(0, seed)
    /\ split_pc = "main"
    /\ train_indices = {}
    /\ test_indices = {}
    /\ valid_indices = {}
    /\ split_files = NoSplitFiles
    /\ split_exit_status = EXIT_OK
    /\ split_calls = 0
    /\ first_split = NoSplit

\* the modes are run one after the other: expand_entities to its end, then
\* convert_triplets_for_stats, create_dataset and pruning_expanded_triplets
PipelineNext ==
    \/ OneProcessNext
    \/ ConvertTriplets
    \/ /\ pc = "done"
       /\ \/ CreateDatasetCheck
          \/ CreateDatasetLoad
       /\ UNCHANGED <<mainVars, retryVars, pruneVars, dedupVars, inverseVars, extractVars,
                      knobVars, jeopardyVars>>
    \/ /\ pc = "done"
       /\ tab_file_exists
       /\ LoadForPruning
       /\ UNCHANGED <<mainVars, retryVars, splitVars, dedupVars, inverseVars, extractVars,
                      createVars, knobVars, jeopardyVars>>

PipelineSpec == PipelineInit /\ [][PipelineNext]_vars

\* ================================== the knobs from main to the fetch task
\* line 709: max_retries = args.max_retries
RetriesPassedByMain(retries, seconds) == retries

\* line 710: timeout = args.max_retries
TimeoutPassedByMain(retries, seconds) == retries

\* main, lines 696-711, calls expand_triplets_logistics
MainCallsLogistics ==
    /\ call_pc = "main"
    /\ call_max_retries' = RetriesPassedByMain(args_max_retries, args_timeout)
    /\ call_timeout' = TimeoutPassedByMain(args_max_retries, args_timeout)
    /\ call_pc' = "expand_triplets_logistics"
    /\ UNCHANGED <<args_max_retries, args_timeout, retryVars>>

\* lines 592-602: max_retries=max_retries, timeout=timeout
LogisticsCallsExpand ==
    /\ call_pc = "expand_triplets_logistics"
    /\ call_pc' = "expand_triplet_set"
    /\ UNCHANGED <<args_max_retries, args_timeout, call_max_retries, call_timeout,
                   retryVars>>

\* lines 324-330: max_retries = max_retries, timeout = timeout
ExpandCallsBatch ==
    /\ call_pc = "expand_triplet_set"
    /\ call_pc' = "_batch_entity_set_expansion"
    /\ UNCHANGED <<args_max_retries, args_timeout, call_max_retries, call_timeout,
                   retryVars>>

\* lines 194-205: a task is submitted with max_retries=max_retries,
\* timeout=timeout
BatchSubmitsTask ==
    /\ call_pc = "_batch_entity_set_expansion"
    /\ call_pc' = "retry_fetch"
    /\ retry_pc' = "submitted"
    /\ retry_entity' \in Entities
    /\ max_retries' = call_max_retries
    /\ UNCHANGED <<args_max_retries, args_timeout, call_max_retries, call_timeout,
                   retry_attempts, retry_failures, retry_newfound, retry_exit_status>>

FetchCallInit ==
    /\ kg \in KnowledgeBases
    /\ ExpandStageIdle
    /\ JeopardyIdle
    /\ CreateIdle
    /\ ExtractIdle
    /\ InverseIdle
    /\ DedupIdle
    /\ SplitIdle
    /\ PruneIdle
    /\ RetryIdle
    /\ args_max_retries \in 1..MaxRetries
    /\ args_timeout \in 1..MaxTimeout
    /\ call_pc = "main"
    /\ call_max_retries = 1
    /\ call_timeout = 1

FetchCallNext ==
    /\ \/ MainCallsLogistics
       \/ LogisticsCallsExpand
       \/ ExpandCallsBatch
       \/ BatchSubmitsTask
       \/ RetryAttempt /\ UNCHANGED knobVars
       \/ AttemptSucceeds /\ UNCHANGED knobVars
       \/ AttemptFails /\ UNCHANGED knobVars
       \/ TaskResultOk /\ UNCHANGED knobVars
       \/ TaskResultFailed /\ UNCHANGED knobVars
       \/ TaskExit /\ UNCHANGED knobVars
    /\ UNCHANGED <<mainVars, splitVars, pruneVars, dedupVars, inverseVars, extractVars, createVars, jeopardyVars>>

FetchCallSpec == FetchCallInit /\ [][FetchCallNext]_vars

\* ====================================================== the checked claims
Finished == pc \in {"done", "aborted", "config_error", "crashed"}

\* the orchestrating thread is inside the batch loop of a hop (lines 312-351)
InHop == pc \in {"batch_head", "as_completed", "exiting", "save_entities",
                 "save_triplets", "save_qualifiers", "hop_tail"}

\* triplets and qualifier map held by the final expanded triplet file
OutTriplets == { <<r[1], r[2], r[3]>> : r \in out.triplets }
OutQualifiers ==
    [t \in { <<r[1], r[2], r[3]>> : r \in { q \in out.triplets : q[4] # EmptyString } } |->
        LiteralEval((CHOOSE r \in out.triplets : <<r[1], r[2], r[3]>> = t)[4])]

\* what the fetches of a set of entities return together
FetchedTriplets(graph, entities) == UNION { FetchTriplets(graph, e) : e \in entities }
FetchedQualifiers(graph, entities) ==
    [t \in FetchedTriplets(graph, entities) \cap DOMAIN QualifierPayload |->
        QualifierPayload[t]]
FetchedForward(graph, entities) ==
    [k \in UNION { DOMAIN FetchForward(graph, e) : e \in entities } |-> k[2]]

\* entities whose fetch the current process has submitted
FetchedByProcess == { e \in Entities : fetch_count[e] > 0 }

\* expand_triplet_set run hop by hop to its end with no failure and no
\* interruption (lines 302-360): the triplets, the qualifier map and the
\* frontier of its last checkpoint
RECURSIVE UninterruptedRun(_, _, _, _, _, _)
UninterruptedRun(graph, frontier, processed, triplets, yet, hops_left) ==
    IF hops_left = 0
    THEN [triplets |-> triplets, frontier |-> yet, processed |-> processed,
          qualifiers |-> [t \in triplets \cap DOMAIN QualifierPayload |-> QualifierPayload[t]]]
    ELSE LET found == FetchedTriplets(graph, frontier)
             neighbors == TailsOf(found)
             now_processed == processed \cup frontier
             now_yet == IF frontier = {} THEN yet
                        ELSE (frontier \cup neighbors) \ now_processed
         IN IF neighbors = {}
            THEN UninterruptedRun(graph, {}, now_processed, triplets \cup found,
                                  now_yet, 0)
            ELSE UninterruptedRun(graph, neighbors \ now_processed,
                                  now_processed, triplets \cup found, now_yet,
                                  hops_left - 1)

\* the run of the command line at hand, left uninterrupted
Reference == UninterruptedRun(kg, og_entities, {}, {}, {}, expansion_hops)

\* a process that was never interrupted and saw no failure ends as Reference says
UninterruptedRunAgrees ==
    (pc = "done" /\ restarts = 0) =>
        /\ OutTriplets = Reference.triplets
        /\ OutQualifiers = Reference.qualifiers
        /\ LoadedFrontier(ckpt) = Reference.frontier

\* C1: checkpoint round trip. A run that was interrupted after a completed
\* batch and resumed from the checkpoint written then (answer 'y') ends with
\* the same triplet set, qualifier map and frontier as the same command line
\* left uninterrupted.
C1_CheckpointRoundTrip ==
    (pc = "done" /\ resumed_from_snapshot) =>
        /\ OutTriplets = Reference.triplets
        /\ OutQualifiers = Reference.qualifiers
        /\ LoadedFrontier(ckpt) = Reference.frontier

\* the part of C1 about the final triplet set alone
C1_SameTriplets ==
    (pc = "done" /\ resumed_from_snapshot) => OutTriplets = Reference.triplets

\* C2: termination. One call of expand_triplet_set ends (returns, aborts or
\* is killed) whenever every fetch returns or fails; a hop begins at most one
\* batch per entity of its frontier and at most expansion_hops hops begin.
C2_Termination ==
    /\ [](InHop => hop_batches <= Len(entities_to_process_per_hop))
    /\ [](InHop => hop < expansion_hops)
    /\ <>Finished

\* a run that went through three batches in two hops and returned
C2_Witness ==
    /\ pc = "done"
    /\ batches_begun = 3
    /\ saves_done = 3
    /\ restarts = 0

\* C3: fail fast. Once a fetch of a batch has failed, the orchestrator neither
\* merges nor saves that batch, begins no later batch or hop and writes no
\* final file; the process ends, and ends with a nonzero exit status.
C3_FailFast ==
    /\ [](fetch_failed # {} =>
            /\ pc \in {"as_completed", "exiting", "aborted", "crashed"}
            /\ ~out.exists)
    /\ [](pc = "aborted" => exit_status # EXIT_OK /\ fetch_failed # {})
    /\ (fetch_failed # {} ~> pc \in {"aborted", "crashed"})

\* an abort in the second batch, after a batch whose fetch succeeded
C3_Witness ==
    /\ pc = "aborted"
    /\ exit_status = EXIT_UNRECOVERABLE
    /\ fetch_failed # {}
    /\ batches_begun = 2
    /\ \E e \in Entities : fetch_count[e] > 0 /\ e \notin fetch_failed

\* C4: when a fetch failure aborts the run during a batch, the three
\* checkpoint files are exactly as the last completed save left them (as the
\* process found them, if it completed none): nothing of the failed batch
\* reaches them, and the entities whose fetch failed are still in the frontier
\* of that checkpoint.
C4_AbortKeepsCheckpoint ==
    /\ (pc = "aborted" \/ fetch_failed # {}) => ckpt = last_saved
    /\ (pc = "aborted" /\ saves_done > 0) =>
           /\ ckpt \in snapshots
           /\ fetch_failed \subseteq LoadedFrontier(ckpt)

\* an abort in the second batch, after the first batch's checkpoint with a
\* triplet in it was written
C4_Witness ==
    /\ pc = "aborted"
    /\ saves_done = 1
    /\ AllCheckpointFilesExist(ckpt)
    /\ LoadedTriplets(ckpt) # {}
    /\ restarts = 0

\* C5: atomic checkpoint. The three files a resume reads all come from one
\* and the same call of save_entity_expansion_checkpoint.
C5_AtomicSnapshot ==
    (pc = "expand_begin" /\ will_use_checkpoint) => ckpt \in snapshots

\* C6: after every batch that performed fetches a checkpoint is written; its
\* frontier is the hop's entities plus the tails found so far in the hop,
\* minus the processed entities, its triplets are all triplets accumulated so
\* far and its qualifier map is the accumulated qualifier map.
JustSaved == pc = "batch_head" /\ hop_batches > 0

HopProcessed == Range(entities_to_process_per_hop) \cap processed_entities

C6_CheckpointAfterBatch ==
    /\ JustSaved =>
        /\ AllCheckpointFilesExist(ckpt)
        /\ LoadedFrontier(ckpt) =
              (Range(entities_to_process_per_hop)
                   \cup TailsOf(FetchedTriplets(kg, HopProcessed))) \ processed_entities
        /\ LoadedTriplets(ckpt) = expanded_triplets
        /\ expanded_triplets = FetchedTriplets(kg, processed_entities)
        /\ LoadedQualifiers(ckpt) = qualifier_dictionary
        /\ qualifier_dictionary = FetchedQualifiers(kg, processed_entities)
    /\ pc \in {"batch_head", "hop_tail", "hop_head", "final_save"} =>
        saves_done = batches_begun

\* the checkpoint of a batch of the second hop, with a frontier and a
\* qualifier in it
C6_Witness ==
    /\ JustSaved
    /\ hop = 1
    /\ LoadedFrontier(ckpt) # {}
    /\ DOMAIN LoadedQualifiers(ckpt) # {}
    /\ TailsOf(FetchedTriplets(kg, HopProcessed)) \ Range(entities_to_process_per_hop) # {}

\* C7: the batch boundary is a barrier. While a fetch is queued or running it
\* belongs to the current batch and the checkpoint of every earlier batch is
\* completely written; while a checkpoint is written no fetch is in flight.
C7_BatchBarrier ==
    /\ Unresolved # {} =>
        /\ pc \in {"as_completed", "exiting"}
        /\ Unresolved \subseteq Range(batch)
        /\ saves_done = batches_begun - 1
    /\ pc \in {"save_entities", "save_triplets", "save_qualifiers"} => Unresolved = {}

\* a fetch of the second batch running, the first batch's checkpoint written
C7_Witness ==
    /\ Running # {}
    /\ batches_begun = 2
    /\ saves_done = 1
    /\ AllCheckpointFilesExist(ckpt)

\* C8: checkpoint inconsistency. A process that finds some but not all of the
\* three checkpoint files ends with an error: it asks no question, loads
\* nothing, issues no fetch and writes no checkpoint file.
PartialAtStart ==
    SomeCheckpointFilesExist(disk_at_start) /\ ~AllCheckpointFilesExist(disk_at_start)

C8_PartialCheckpointIsFatal ==
    /\ PartialAtStart =>
        /\ pc \in {"logistics", "config_error", "crashed"}
        /\ fetch_count = NoFetches
        /\ ckpt = disk_at_start
        /\ ~prompted
        /\ ~resumed
        /\ LocalsCleared
    /\ pc = "config_error" => PartialAtStart /\ exit_status = EXIT_RUNTIME_ERROR

\* the error raised over a frontier file without the other two files
C8_Witness ==
    /\ pc = "config_error"
    /\ ckpt.entities.exists
    /\ ~ckpt.qualifiers.exists

\* C9: on a confirmed resume the three files are loaded unchanged, expansion
\* starts from the checkpointed frontier, and the final triplet set and
\* qualifier map are the checkpointed ones together with those found after
\* the resume.
C9_ResumeMergesCheckpoint ==
    /\ (pc = "expand_begin" /\ will_use_checkpoint) =>
        /\ entities_to_expand_upon = disk_at_start.entities.rows
        /\ chkpntd_triplets_processed = disk_at_start.triplets.rows
        /\ { <<StrOf(k), StrOf(chkpntd_qualifier_dictionary[k])>> :
                 k \in DOMAIN chkpntd_qualifier_dictionary } = disk_at_start.qualifiers.rows
    /\ (pc = "hop_head" /\ hop = 0 /\ resumed) =>
        Range(entities_to_process_per_hop) = disk_at_start.entities.rows
    /\ (pc = "done" /\ resumed) =>
        /\ OutTriplets = LoadedTriplets(disk_at_start)
                             \cup FetchedTriplets(kg, FetchedByProcess)
        /\ DOMAIN OutQualifiers = (DOMAIN LoadedQualifiers(disk_at_start))
                             \cup (DOMAIN FetchedQualifiers(kg, FetchedByProcess))
        /\ \A k \in DOMAIN LoadedQualifiers(disk_at_start) :
               OutQualifiers[k] = LoadedQualifiers(disk_at_start)[k]

\* C10: the processed set grows across resumes. An entity that was processed
\* when the checkpoint resumed from was written is not fetched again by the
\* resumed process.
C10_ProcessedSurvivesResume ==
    resumed => \A e \in inherited_processed : fetch_count[e] = 0

\* C11: within one process an entity that is in the processed set is in no
\* batch being fetched, is fetched at most once, is not in the list of a hop
\* about to begin and is not in the frontier of a checkpoint written since.
C11_ProcessedNeverReturns ==
    /\ pc \in {"as_completed", "exiting"} =>
           Range(batch) \cap processed_entities = {}
    /\ \A e \in Entities : fetch_count[e] <= 1
    /\ pc = "hop_head" => Range(entities_to_process_per_hop) \cap processed_entities = {}
    /\ (pc \in {"batch_head", "hop_tail", "hop_head", "final_save"} /\ saves_done > 0) =>
           LoadedFrontier(ckpt) \cap processed_entities = {}

\* a second hop about to begin while a processed entity was found again as a
\* tail in the first
C11_Witness ==
    /\ pc = "hop_head"
    /\ hop = 1
    /\ new_neighbors \cap processed_entities # {}
    /\ entities_to_process_per_hop # <<>>
    /\ saves_done > 0

\* C12: the list of hop h+1 is the set of tails of the triplets the fetches of
\* hop h returned, minus the entities processed by the end of hop h; seeds
\* {Q1, Q2}, one hop and the triplets (Q1,P1,Q3), (Q2,P2,Q3) give those two
\* triplets, frontier {Q3} and Q1, Q2 processed.
SpecExampleRun ==
    /\ og_entities = {"Q1", "Q2"}
    /\ expansion_hops = 1
    /\ kg = { <<"Q1", "P1", "Q3">>, <<"Q2", "P2", "Q3">> }
    /\ pc = "final_save"
    /\ ~resumed

C12_NextFrontier ==
    /\ [][(pc = "hop_tail" /\ pc' = "hop_head") =>
            Range(entities_to_process_per_hop') =
                TailsOf(FetchedTriplets(kg, Range(entities_to_process_per_hop)))
                    \ processed_entities]_vars
    /\ [](SpecExampleRun =>
            /\ expanded_triplets = { <<"Q1", "P1", "Q3">>, <<"Q2", "P2", "Q3">> }
            /\ Range(entities_to_process_per_hop) = {"Q3"}
            /\ LoadedFrontier(ckpt) = {"Q3"}
            /\ processed_entities = {"Q1", "Q2"})

\* the example run at its end
C12_Witness ==
    /\ SpecExampleRun
    /\ Range(entities_to_process_per_hop) = {"Q3"}

C14_TargetSizeIsAdvisory ==
    /\ InHop => hop < expansion_hops
    /\ pc = "done" =>
        /\ FetchedByProcess = Reference.processed
        /\ OutTriplets = Reference.triplets
        /\ OutQualifiers = Reference.qualifiers

\* a run with target 1 that went on to fetch a second hop's entity
C14_Witness ==
    /\ pc = "done"
    /\ target_size = 1
    /\ Cardinality(FetchedByProcess) > target_size
    /\ Cardinality(OutTriplets) > target_size

\* C15: bounded retry. No fetch is attempted more than max_retries times; a
\* fetch that succeeds on an allowed attempt, after transient failures or none,
\* gives its triplets to the batch and ends no process; the orchestrator sees
\* an error, and exits, only when every allowed attempt has failed.
C15_BoundedRetry ==
    /\ retry_attempts <= max_retries
    /\ retry_failures <= retry_attempts
    /\ retry_pc = "retrying" => retry_attempts < max_retries
    /\ retry_pc \in {"returned", "merged"} =>
        /\ retry_failures = retry_attempts - 1
        /\ retry_exit_status = EXIT_OK
    /\ retry_pc = "merged" => FetchTriplets(kg, retry_entity) \subseteq retry_newfound
    /\ retry_pc \in {"raised", "exiting", "aborted"} =>
        /\ retry_failures = max_retries
        /\ retry_newfound = {}
    /\ retry_failures = max_retries => retry_pc \in {"raised", "exiting", "aborted"}
    /\ retry_pc = "aborted" => retry_exit_status = EXIT_UNRECOVERABLE

\* a fetch that failed once, succeeded on the second attempt and gave triplets
C15_Witness ==
    /\ retry_pc = "merged"
    /\ retry_failures = 1
    /\ retry_attempts = 2
    /\ retry_newfound # {}

\* indices of the list handed to create_dataset_splits, and their number per
\* relation
AllIndices == 0..(Len(triplet_list) - 1)
Occurrences(rel) == Cardinality(IndicesOf(triplet_list, rel))

\* C16: split completeness. For every triplet list, the empty one included,
\* a call of create_dataset_splits returns, and every index of the list is in
\* exactly one of train, test and valid.
C16_SplitCompleteness ==
    /\ split_pc \in {"returned", "raised"} => split_pc = "returned"
    /\ split_pc = "returned" =>
        /\ train_indices \cup test_indices \cup valid_indices = AllIndices
        /\ train_indices \cap test_indices = {}
        /\ train_indices \cap valid_indices = {}
        /\ test_indices \cap valid_indices = {}
        /\ Len(split_files.train) + Len(split_files.test) + Len(split_files.valid)
               = Len(triplet_list)

\* C17: split minimum coverage. Every relation with at least 9 occurrences has
\* at least 3 of its triplets in each of train, test and valid.
C17_MinimumCoverage ==
    split_pc = "returned" =>
        \A rel \in Relations :
            Occurrences(rel) >= 3 * min_examples_per_split =>
                /\ Cardinality(IndicesOf(triplet_list, rel) \cap train_indices)
                       >= min_examples_per_split
                /\ Cardinality(IndicesOf(triplet_list, rel) \cap test_indices)
                       >= min_examples_per_split
                /\ Cardinality(IndicesOf(triplet_list, rel) \cap valid_indices)
                       >= min_examples_per_split

\* a relation with exactly 9 occurrences next to a sparse one, split
C17_Witness ==
    /\ split_pc = "returned"
    /\ Occurrences("P1") = 3 * min_examples_per_split
    /\ Occurrences("P2") = 1
    /\ Cardinality(valid_indices) = min_examples_per_split

\* C18: sparse relations go to train only. Every triplet of a relation with
\* fewer than 9 occurrences is in train and in neither test nor valid when the
\* call returns.
C18_SparseToTrain ==
    split_pc = "returned" =>
        \A rel \in Relations :
            Occurrences(rel) < 3 * min_examples_per_split =>
                /\ IndicesOf(triplet_list, rel) \subseteq train_indices
                /\ IndicesOf(triplet_list, rel) \cap (test_indices \cup valid_indices) = {}

\* a sparse relation with one triplet next to a relation that was split
C18_Witness ==
    /\ split_pc = "returned"
    /\ \E rel \in Relations :
          /\ Occurrences(rel) = 1
          /\ IndicesOf(triplet_list, rel) \subseteq train_indices
    /\ test_indices # {}

\* C19: the split is reproducible. A second call with the same list, ratios
\* and seed, made with the generator in the state the first call left, ends
\* with the index sets and files of the first call.
C19_Reproducible ==
    (split_pc = "returned" /\ split_calls >= 2) =>
        /\ [train |-> train_indices, test |-> test_indices, valid |-> valid_indices]
               = first_split
        /\ split_files.train = SplitFile(triplet_list, first_split.train)
        /\ split_files.test = SplitFile(triplet_list, first_split.test)
        /\ split_files.valid = SplitFile(triplet_list, first_split.valid)

\* a second call that shuffled a relation, with a generator that the first
\* call left in another state than it found
C19_Witness ==
    /\ split_pc = "returned"
    /\ split_calls = 2
    /\ valid_indices # {}
    /\ rng # SeedRandom(rng, seed)

\* C20: pruning correctness. For every threshold and protected sets, no
\* protected entity or relation is in the computed prune sets, and every entity
\* or relation in them is unprotected and occurs in fewer rows than the threshold.
C20_PruningCorrectness ==
    prune_pc \in {"computed", "done"} =>
        /\ ent_to_prune \cap non_prunable_entities = {}
        /\ rel_to_prune \cap non_prunable_relations = {}
        /\ \A e \in ent_to_prune : EntityCount(expanded_triplets_df, e) < pruning_num
        /\ \A r \in rel_to_prune : RelationCount(expanded_triplets_df, r) < pruning_num

\* protected items below the threshold are spared while others are pruned
C20_Witness ==
    /\ prune_pc = "computed"
    /\ \E e \in non_prunable_entities :
          /\ e \in EntitiesOfFrame(expanded_triplets_df)
          /\ EntityCount(expanded_triplets_df, e) < pruning_num
    /\ \E r \in non_prunable_relations :
          /\ r \in RelationsOfFrame(expanded_triplets_df)
          /\ RelationCount(expanded_triplets_df, r) < pruning_num
    /\ ent_to_prune \cap Entities # {}
    /\ rel_to_prune \cap Relations # {}

\* the triplets of a tab-separated file: its lines after the header line
DataRows(file) == Tail(file)

\* C21: pruning filter. The pruned triplet file holds exactly the triplets of
\* the input file whose head and tail are not in ent_to_prune and whose
\* relation is not in rel_to_prune, in the order and number of the input.
C21_PruningFilter ==
    prune_pc = "done" =>
        DataRows(pruned_file) = SelectRows(DataRows(tab_file), ent_to_prune, rel_to_prune)

\* without the header line that the data frame took for a triplet, the filter
\* keeps the rows it should
C21_FilterOfTheFrame ==
    prune_pc = "done" =>
        DataRows(pruned_file) = SelectRows(expanded_triplets_df, ent_to_prune, rel_to_prune)

\* a list that holds no item twice
NoRepetition(lst) == \A i, j \in DOMAIN lst : lst[i] = lst[j] => i = j

\* the number of times an item was handed to an update
TimesOffered(t) == Cardinality({ i \in DOMAIN dedup_offered : dedup_offered[i] = t })

\* C22: deduplication. The batch's, the run's and the final triplet collection
\* never hold a triplet twice, they hold every triplet they were handed (two
\* triplets are the same only if head, relation and tail are equal), and
\* updating a collection with its own members changes nothing.
C22_Deduplication ==
    /\ NoRepetition(dedup_newfound)
    /\ NoRepetition(dedup_expanded)
    /\ NoRepetition(dedup_rows)
    /\ Range(dedup_newfound) \cup Range(dedup_expanded) = Range(dedup_offered)
    /\ dedup_pc = "done" =>
          { <<r[1], r[2], r[3]>> : r \in Range(dedup_rows) } = Range(dedup_offered)
    /\ SetUpdate(dedup_expanded, dedup_expanded) = dedup_expanded
    /\ SetUpdate(dedup_newfound, dedup_newfound) = dedup_newfound

\* a triplet found by two entities of a batch, again in the next batch and in
\* the checkpoint, next to a triplet with another relation between the same
\* entities
C22_Witness ==
    /\ dedup_pc = "done"
    /\ TimesOffered(<<"Q1", "P1", "Q3">>) >= 4
    /\ <<"Q1", "P1", "Q3">> \in Range(dedup_chkpntd)
    /\ Len(dedup_rows) = 2

\* C23: inverse-relation assignment. During and after the greedy pass every
\* relation is in at most one committed pair, so none has two partners and
\* none is the primary of one pair and the claimed inverse of another.
C23_OnePartner ==
    /\ \A c, d \in inv_committed : c # d => {c[1], c[2]} \cap {d[1], d[2]} = {}
    /\ \A rel \in InverseRelations : Cardinality(InversePartners(rel, inv_committed)) <= 1
    /\ \A c \in inv_committed : c[1] # c[2]

\* the pass is over; a pair is committed and a candidate that shares a
\* relation with it was skipped
C23_Witness ==
    /\ inv_pc = "emit"
    /\ Cardinality(CandidatePairs(inv_freq)) >= 4
    /\ inv_committed # {}
    /\ \E c \in CandidatePairs(inv_freq) \ inv_committed, d \in inv_committed :
          c[1] # d[2] /\ {c[1], c[2]} \cap {d[1], d[2]} # {}

\* the output never holds a triplet and its logical inverse
NoBothDirections ==
    \A t \in inv_emitted : \A q \in InversePartners(t[2], inv_committed) :
        <<t[3], q, t[1]>> \notin inv_emitted

\* the example of the spec: (A, P1, B) five times, (B, P2, A) three times,
\* here twice and once
ExampleInput ==
    /\ inv_freq[<<"Q1", "P1", "Q2">>] = 2
    /\ inv_freq[<<"Q2", "P2", "Q1">>] = 1
    /\ inv_freq[<<"Q2", "P3", "Q1">>] = 0
    /\ inv_freq[<<"Q1", "P3", "Q2">>] = 0

ExampleKeepsPrimary ==
    (ExampleInput /\ inv_pc = "done") =>
        /\ inv_committed = { <<"P1", "P2">> }
        /\ inv_emitted = { <<"Q1", "P1", "Q2">> }

\* a record of the dataset lacks a key the extractor reads
Malformed(example) ==
    \/ ~AssertedShape(example)
    \/ ~HasTriplesLabeled(example)

\* the extraction is over, one way or the other
ExtractOver == extract_pc \in {"raised", "saving", "done"}

\* C25: malformed input record. If any record lacks requested_rewrite, orig,
\* orig.triples or orig.triples_labeled, the extraction stops with an
\* assertion failure and none of the four list files is written.
C25_MalformedRecord ==
    ((\E i \in DOMAIN mquake_data : Malformed(mquake_data[i])) /\ ExtractOver) =>
        /\ extract_pc = "raised"
        /\ extract_error = "AssertionError"
        /\ list_files = NoListFiles

\* whatever the exception, a malformed record stops the process before a
\* file is opened
C25_StopsBeforeWriting ==
    ((\E i \in DOMAIN mquake_data : Malformed(mquake_data[i])) /\ ExtractOver) =>
        /\ extract_pc = "raised"
        /\ extract_error \in {"AssertionError", "KeyError"}
        /\ list_files = NoListFiles

\* C26: missing prerequisite. In create_dataset mode without the
\* qualifier-free triplet file the program reports that
\* convert_triplets_for_stats must be run first and exits with a nonzero
\* status; create_dataset_splits is not called and the train, test and valid
\* files stay as they were.
C26_MissingPrerequisite ==
    /\ [](~tab_file_exists =>
            /\ split_pc \in {"main", "exited"}
            /\ split_calls = 0
            /\ split_pc = "exited" =>
                  /\ error_logged = MissingPrerequisiteMessage
                  /\ split_exit_status # EXIT_OK)
    /\ [][~tab_file_exists => split_files' = split_files]_vars

\* the file is missing, old split files are there, the process has exited
C26_Witness ==
    /\ ~tab_file_exists
    /\ split_pc = "exited"
    /\ split_files = OldSplitFiles

\* C27: the checkpoint's triplet set never shrinks. Every write of the
\* triplet file by a process that already wrote it, or that resumed from it,
\* keeps every triplet the file held.
C27_CheckpointNeverShrinks ==
    [][(/\ ckpt.triplets.exists
        /\ ckpt'.triplets # ckpt.triplets
        /\ resumed \/ saves_done > 0)
       => ReadTripletCsv(ckpt.triplets) \subseteq ReadTripletCsv(ckpt'.triplets)]_vars

\* within a process that did not resume, the writes only add triplets
C27_GrowsWithinFreshProcess ==
    [][(/\ ckpt.triplets.exists
        /\ ckpt'.triplets # ckpt.triplets
        /\ ~resumed /\ saves_done > 0)
       => ReadTripletCsv(ckpt.triplets) \subseteq ReadTripletCsv(ckpt'.triplets)]_vars

\* C28: the knobs reach the fetch. Every fetch task runs with the retry limit
\* of --max_retries and the timeout of --timeout.
C28_KnobsReachFetch ==
    call_pc = "retry_fetch" =>
        /\ max_retries = args_max_retries
        /\ call_timeout = args_timeout

\* the retry limit does reach the fetch, and bounds its attempts
C28_RetryLimitReachesFetch ==
    call_pc = "retry_fetch" =>
        /\ max_retries = args_max_retries
        /\ retry_attempts <= args_max_retries


\* C29: after a batch completes, every entity of that batch is in the processed
\* set, including the entities whose fetch returned no triplet.
C29_BatchMarkedProcessed ==
    pc \in {"save_entities", "save_triplets", "save_qualifiers"} =>
        Range(batch) \subseteq processed_entities

\* a batch just merged with an entity the knowledge graph holds no triplet of
C29_Witness ==
    /\ pc = "save_entities"
    /\ \E e \in Range(batch) :
           /\ FetchTriplets(kg, e) = {}
           /\ e \in processed_entities


\* C30: within a batch exactly one fetch task is submitted for each entity of
\* the batch and for no other entity, and at no time are more than max_workers
\* fetches running.
C30_OneTaskPerEntityBoundedWorkers ==
    /\ Cardinality(Running) <= max_workers
    /\ pc \in {"as_completed", "exiting"} =>
           /\ \A e \in Range(batch) : SubmittedTasks(batch, e) = 1 /\ fetch_count[e] = 1
           /\ \A e \in Entities : futures[e] # "none" <=> e \in Range(batch)

\* a batch of two entities on one worker: one fetch runs, the other waits
C30_Witness ==
    /\ pc = "as_completed"
    /\ Len(batch) = 2
    /\ max_workers = 1
    /\ Cardinality(Running) = 1
    /\ Queued # {}


\* the run-level collections of expand_triplet_set (lines 292-296, 306, 345)
RunCollections ==
    <<expanded_triplets, qualifier_dictionary, processed_entities, new_neighbors,
      entities_yet_to_process>>

\* a step of a worker thread: a task of the batch starts, returns or fails
WorkerStep ==
    /\ pc' = pc
    /\ \E e \in Entities : futures[e] \in {"queued", "running"} /\ futures'[e] # futures[e]

\* C31: worker tasks mutate no shared state. A step of a worker changes neither
\* the run-level triplet, qualifier, processed and frontier collections nor
\* the batch's accumulators, and while a batch is being fetched the run-level
\* collections change only once every fetch of the batch has resolved and its
\* result was taken by the orchestrating thread.
C31_WorkersMutateNothing ==
    /\ [][WorkerStep =>
              UNCHANGED <<RunCollections, newfound_triplets, batch_qualifier_dictionary,
                          batch_forward_dict>>]_vars
    /\ [][(/\ pc \in {"as_completed", "exiting"}
            /\ pc' \notin {"crashed", "aborted"}
            /\ RunCollections' # RunCollections)
           => Unresolved = {} /\ AllResultsSeen(batch, futures)]_vars

\* a fetch has resolved and its result was taken while another fetch of the
\* batch is still running: the run-level triplet set does not hold the result
C31_Witness ==
    /\ pc = "as_completed"
    /\ Running # {}
    /\ \E e \in Range(batch) :
           /\ futures[e] = "consumed"
           /\ FetchTriplets(kg, e) # {}
           /\ FetchTriplets(kg, e) \cap expanded_triplets = {}


\* the orchestrating thread waits in as_completed while a fetch is running
WaitingForFetch == pc = "as_completed" /\ Running # {}

\* C32: the orchestrator waits for each task of a batch with a per-task
\* timeout. If a fetch task never completes the orchestrator does not wait
\* for it forever: the wait ends and the run aborts.
C32_WaitIsBounded ==
    <>[]WaitingForFetch => <>(pc = "aborted")

\* the timeout of line 212 is given to future.result, which the loop calls on
\* futures that as_completed has yielded, that is, on finished ones only
C32_ResultTakenWhenDone ==
    [][\A e \in Entities :
          (futures[e] # "consumed" /\ futures'[e] = "consumed")
              => futures[e] \in {"ok", "failed"}]_vars


\* C33: within a single run of expand_triplet_set that did not resume, no
\* entity is fetched more than once over all batches and all hops: a batch
\* submits tasks only for entities no task was submitted for before.
C33_FetchedOnce ==
    /\ [](~resumed => \A e \in Entities : fetch_count[e] <= 1)
    /\ [][~resumed' =>
             \A e \in Entities : fetch_count'[e] > fetch_count[e] => fetch_count[e] = 0]_vars

\* the second hop being fetched after the seed Q1 was found again as the tail
\* of a triplet in the first: Q1 is not in the batch
C33_Witness ==
    /\ pc = "as_completed"
    /\ hop = 1
    /\ ~resumed
    /\ <<"Q3", "P2", "Q1">> \in expanded_triplets
    /\ fetch_count["Q1"] = 1
    /\ "Q1" \notin Range(batch)


\* C34: the result of a batch does not depend on the order in which its
\* fetches complete. Whatever the order the results were taken in, the
\* batch's triplet set is the union of the per-entity triplet sets and its
\* qualifier and forward-reference maps are those of the entities together.
C34_OrderIndependent ==
    pc \in {"save_entities", "save_triplets", "save_qualifiers"} =>
        /\ newfound_triplets = FetchedTriplets(kg, Range(batch))
        /\ batch_qualifier_dictionary = FetchedQualifiers(kg, Range(batch))
        /\ batch_forward_dict = FetchedForward(kg, Range(batch))

\* the result of the task submitted second was taken while the task
\* submitted first has not finished, and the two results differ
C34_Witness ==
    /\ pc = "as_completed"
    /\ Len(batch) = 2
    /\ futures[batch[2]] = "consumed"
    /\ futures[batch[1]] = "running"
    /\ FetchTriplets(kg, batch[1]) # FetchTriplets(kg, batch[2])
    /\ FetchTriplets(kg, batch[1]) # {}
    /\ newfound_triplets = FetchTriplets(kg, batch[2])


\* ratios a call of create_dataset_splits may be given, in percent
SplitRatios == {0, 50, 80, 100}

\* the three index sets as the call holds them
CurrentSplit == [train |-> train_indices, test |-> test_indices, valid |-> valid_indices]

ProducedTriplets == { <<r[1], r[2], r[3]>> : r \in out.triplets }

\* C36: stage round trip. The triplet list that create_dataset mode passes to
\* create_dataset_splits, after expand_entities wrote the expanded triplets
\* and convert_triplets_for_stats stripped the qualifiers, holds exactly the
\* triplets the expansion produced, none added and none lost, and so does the
\* frame read by pruning_expanded_triplets.
C36_StageRoundTrip ==
    /\ split_pc = "called" =>
           /\ Range(triplet_list) = ProducedTriplets
           /\ Len(triplet_list) = Cardinality(ProducedTriplets)
    /\ prune_pc = "loaded" => Range(expanded_triplets_df) = ProducedTriplets

\* no triplet of the expansion is lost on the way, and the rows added are the
\* column names of the two files
C36_OnlyHeaderRowsAdded ==
    /\ split_pc = "called" =>
           Range(triplet_list) = ProducedTriplets \cup {ETWoQ_COLUMNS}
    /\ prune_pc = "loaded" =>
           Range(expanded_triplets_df) = ProducedTriplets \cup {ETWoQ_COLUMNS, HeaderRow}


\* what holds of a process that asked the resume question and was not told to
\* resume: it starts from the seed entities with empty accumulators, its
\* final files hold what its own fetches returned, and once its first batch
\* is saved the three checkpoint files hold its own state
DeclinedRunIsFresh(declined) ==
    /\ declined => ~resumed
    /\ (declined /\ pc = "expand_begin") =>
           /\ ~will_use_checkpoint
           /\ entities_to_expand_upon = og_entities
           /\ chkpntd_triplets_processed = {}
           /\ chkpntd_qualifier_dictionary = EmptyDict
    /\ (declined /\ pc = "hop_head" /\ hop = 0) =>
           /\ Range(entities_to_process_per_hop) = og_entities
           /\ expanded_triplets = {}
           /\ qualifier_dictionary = EmptyDict
    /\ (declined /\ pc = "batch_head" /\ saves_done >= 1) =>
           /\ ckpt = Snapshot(entities_yet_to_process, expanded_triplets,
                              qualifier_dictionary)
           /\ LoadedTriplets(ckpt) = FetchedTriplets(kg, processed_entities)
    /\ (declined /\ pc = "done") =>
           /\ OutTriplets = FetchedTriplets(kg, FetchedByProcess)
           /\ DOMAIN OutQualifiers = DOMAIN FetchedQualifiers(kg, FetchedByProcess)

\* C37: if all three checkpoint files exist and the user answers anything
\* other than 'y', the run starts from the original seed entities with empty
\* triplet and qualifier accumulators, nothing of the old checkpoint enters
\* the final result, and the old checkpoint files are overwritten by the
\* first completed batch.
C37_AnythingButY ==
    DeclinedRunIsFresh(prompted /\ typed_answer # "y")

\* C37 as it holds: the same of every answer that is not 'y' once put in
\* lower case ('Y' is taken as 'y')
C37_AnythingButYInLowerCase ==
    DeclinedRunIsFresh(prompted /\ Lower(typed_answer) # "y")

\* a run that answered 'n' and returned, a triplet of the old checkpoint not
\* being in its final file
C37_Witness ==
    /\ pc = "done"
    /\ prompted
    /\ typed_answer = "n"
    /\ LoadedTriplets(disk_at_start) \ OutTriplets # {}


\* every triple of every record, and every rewrite entry of every record
AllOrigTriples ==
    UNION { Range(mquake_data[i].triples) : i \in DOMAIN mquake_data }
AllRewrites ==
    UNION { Range(mquake_data[i].requested_rewrite) : i \in DOMAIN mquake_data }

\* every record has every field that is read
WellFormed == \A i \in DOMAIN mquake_data : mquake_data[i].keys = FieldsRead

\* C38: for well-formed input extract_mquake_entities returns as seed entities
\* exactly the heads and tails of all orig.triples of all records and as seed
\* relations exactly their relations; the counterfactual sets hold exactly the
\* relation_id values that begin with 'P' and the target_new.id values that
\* begin with 'Q' of all requested_rewrite entries, and nothing of them
\* enters the seed sets.
C38_ExtractedSets ==
    (WellFormed /\ extract_pc \in {"saving", "done"}) =>
        /\ extract_error = "none"
        /\ seed_entities = { t[1] : t \in AllOrigTriples } \cup { t[3] : t \in AllOrigTriples }
        /\ seed_relations = { t[2] : t \in AllOrigTriples }
        /\ \A r \in rr_relations :
               /\ r[1] = "P"
               /\ \E w \in AllRewrites : "relation_id" \in w.keys /\ w.relation_id = r
        /\ \A w \in AllRewrites :
               ("relation_id" \in w.keys /\ w.relation_id # <<>> /\ w.relation_id[1] = "P")
                   => w.relation_id \in rr_relations
        /\ \A q \in rr_entities :
               /\ q[1] = "Q"
               /\ \E w \in AllRewrites : {"target_new", "id"} \subseteq w.keys /\ w.id = q
        /\ \A w \in AllRewrites :
               ({"target_new", "id"} \subseteq w.keys /\ w.id # <<>> /\ w.id[1] = "Q")
                   => w.id \in rr_entities

\* two well-formed records read, one with a rewrite whose relation does not
\* begin with 'P' and one with a rewrite that is taken
C38_Witness ==
    /\ WellFormed
    /\ extract_pc = "saving"
    /\ Len(mquake_data) = 2
    /\ RewriteOdd \in AllRewrites
    /\ rr_relations = {RewriteOk.relation_id}
    /\ rr_entities = {RewriteOk.id}
    /\ "Q2" \in seed_entities

\* ------------------------------------------------------------------ C39
\* the rows of the question file the filter has to keep: every answer entity
\* is a head or a tail of some triplet, and at least two of the question
\* entities are
RowsToKeep ==
    { i \in DOMAIN jeopardy_df :
        /\ \A a \in Range(jeopardy_df[i].answer_qid) :
              \E t \in jeopardy_triplets : a = t[1] \/ a = t[3]
        /\ \E e1, e2 \in Range(jeopardy_df[i].question_qid) :
              /\ e1 # e2
              /\ \E t \in jeopardy_triplets : e1 = t[1] \/ e1 = t[3]
              /\ \E t \in jeopardy_triplets : e2 = t[1] \/ e2 = t[3] }

====
